---- MODULE Spec2Model ----
(***************************************************************************)
(* Models of four servers of the protohackers repository:                  *)
(*   - line-reversal: the LRCP session layer (listener.rs, connection.rs)  *)
(*     and the text form of its datagrams (lrcp/message.rs),               *)
(*   - speed-daemon: the road workers and the shared daily ticket ledger   *)
(*     (systems/record.rs), the ticket system (systems/ticket.rs) and the  *)
(*     client connections (client.rs),                                     *)
(*   - voracious-code-storage: the revision store (storage.rs, main.rs)    *)
(*     and the line protocol of a connection (protocol/),                  *)
(*   - job-centre: the job manager (jobs.rs) and its clients (client.rs).  *)
(* The servers are separate processes; each part has its own specification *)
(* (SpecLrcpIn, SpecLrcpData, SpecLrcpOther, SpecLrcpOut, SpecLrcpLive,    *)
(* SpecCodec, SpecSpeed, SpecTicket, SpecRoute, SpecTicketLive,            *)
(* SpecClient, SpecClientLive, SpecStore, SpecLocks, SpecProto, SpecJobs)  *)
(* that leaves the others' variables at their initial values.              *)
(***************************************************************************)
EXTENDS Integers, Sequences, FiniteSets, TLC

(***************************************************************************)
(* Bounds of the model.                                                    *)
(***************************************************************************)
\* length of the peer's byte stream B (LRCP, inbound direction)
MaxB == 2
\* bytes the application writes to one session's stream (LRCP, outbound)
MaxOut == 2
\* retransmission periods in one expiry window; the code has
\* SESSION_EXPIRY_TIMEOUT / RETRANSMISSION_TIMEOUT = 600 (mod.rs:3-4)
ExpiryTicks == 2
\* acknowledgments queued in the unbounded send_ack channel
MaxAckQueue == 1
\* bytes one read of a stored revision returns (content store); the code
\* reads through a BufReader into blocks of BLOCK_SIZE = 4096
\* (protocol/connection.rs:12, 203-215)
ReadSize == 1
\* bytes of content one GET response may carry before the model stops
\* following it (content store)
MaxResponse == 3
\* texts one client writes to its connection (content store, line protocol)
MaxRequests == 3
\* bytes one read of a PUT's body returns (content store, line protocol):
\* the longest body of the model's texts
MaxBody == 6
\* characters of a payload the server serializes (LRCP, text form)
MaxPayload == 3
\* characters of the DATA field of a datagram a peer sends (LRCP, text form)
MaxData == 4
\* jobs the clients put (job-centre)
MaxJobs == 2
\* GET requests that wait for a job (job-centre)
MaxGets == 1

\* capacity of the channel listener -> listen_to_server; the code has
\* CONNECTION_INCOMING_BUFFER_SIZE = 128 (connection.rs:16), the model keeps
\* the try_send/Full behaviour with a small buffer
IncomingBufferSize == 1
\* capacity of the channel listen_to_server -> listen_to_client; the code has
\* INTERNAL_BUFFER_SIZE = 128 (connection.rs:19)
InternalBufferSize == 1

\* plate reports the cameras submit (speed-daemon)
MaxReports == 4
\* tickets the road workers issue (speed-daemon)
MaxTickets == 3
\* plate reports one connection submits (speed-daemon)
MaxPlates == 2
\* milliseconds the clock of the heartbeats runs (speed-daemon)
MaxTime == 400
\* capacity of the ticket system's channel; the code has
\* SYSTEM_BUFFER_SIZE = 1024 (ticket.rs:12)
TicketBufferSize == 2
\* capacity of a connection's to_client channel; the code has
\* TO_CLIENT_BUFFER_SIZE = 32 (client.rs:22)
ToClientBufferSize == 1

(***************************************************************************)
(* Program constants.                                                      *)
(***************************************************************************)
\* line-reversal/src/lrcp/mod.rs:8
MAX_DATA_SIZE == 910
\* line-reversal/src/lrcp/mod.rs:5
MAX_MESSAGE_SIZE == 1000
\* voracious-code-storage/src/protocol/connection.rs:12
BLOCK_SIZE == 4096
\* speed-daemon/src/systems/record.rs:8
DAY_IN_SECS == 86400
\* u16::MAX, the range of Limit and of a ticket's speed (ticket.rs:23)
U16_MAX == 65535
\* speed-daemon/src/protocol/message.rs:1
SPEED_FACTOR == 100

VARIABLES
    \* ---- line-reversal (LRCP) ----
    sessions,   \* listener.rs:46  HashMap<u32, Handler>: session id -> task (0: absent)
    tasks,      \* connection.rs:55-66  the state of each spawned session task
    accepted,   \* listener.rs:41  streams put on the accept queue, in order
    peer,       \* the well-behaved peer of SpecLrcpLive (unused elsewhere)
    \* ---- speed-daemon ----
    workers,        \* record.rs:27, 163-171  the road workers, by road
    records,        \* record.rs:139  each worker's records: plate -> camera -> timestamp
    ticket_records, \* record.rs:18, 29  the shared DashSet<(Plate, u32)>
    tickets,        \* the tickets handed to the ticket system, in order
    reports,        \* number of plate reports taken so far
    \* ---- voracious-code-storage ----
    files,      \* storage.rs:54  TempFileSystem.files: name -> TempFile
    dirs,       \* storage.rs:55  TempFileSystem.dirs: directory -> children
    clients,    \* main.rs:28-59  each connection's position in handle_connection
    answered,   \* the PUTs answered OK r<n>: <<file, revision, content>>
    lastPut,    \* per file, the content of the PUT inserted last
    \* ---- speed-daemon: ticket system and client connections ----
    ticket_queue,    \* ticket.rs:79  the channel of InternalMessages
    ticket_log,      \* every message ever sent into ticket_queue, in order
    dispatchers,     \* ticket.rs:68  road -> the DispatcherSenders (clients)
    pending_tickets, \* ticket.rs:69  road -> the tickets waiting for a dispatcher
    tsys,            \* ticket.rs:85-94  the position of the ticket system's task
    conns,           \* client.rs:27-48  the state of each connection's futures
    to_client,       \* client.rs:32  each connection's channel of ToClient
    written,         \* client.rs:57-58  the messages written to each socket
    now,             \* the time since the server started, in milliseconds
    record_log,      \* record.rs:39  every message the connections sent to the record system
    \* ---- voracious-code-storage: the line protocol ----
    stream,     \* protocol/connection.rs:17  each connection's BufReader<TcpStream>
    handler,    \* main.rs:28-59  handle_connection's position inside read_request
    \* ---- line-reversal: the datagram codec ----
    codec,      \* lrcp/message.rs  a Message, its text and what the text parses to
    \* ---- job-centre ----
    jobs,        \* jobs.rs:51  Manager.jobs: job id -> Job
    new_job_id,  \* jobs.rs:52  Manager.new_job_id
    queues,      \* jobs.rs:55  Manager.queues: queue name -> QueueStab
    channels,    \* jobs.rs:161  the oneshot channels of the waiting clients
    job_clients, \* client.rs:15-20  the Client of each connection: its jobs and where it is
    returned,    \* jobs.rs:94  the Option<Job> the last request's try_get returned
    abort_result, \* jobs.rs:210  what the last request's abort returned, as an Option
    \* ---- voracious-code-storage: the locks of the two DashMaps ----
    guards,     \* storage.rs:54-55  the Ref / RefMut guards alive, by entry
    calls       \* storage.rs:76, 109, 128  each connection's position in its call

lrcpVars == <<sessions, tasks, accepted, peer>>
speedVars == <<workers, records, ticket_records, tickets, reports>>
storeVars == <<files, dirs, clients, answered, lastPut>>
daemonVars == <<ticket_queue, ticket_log, dispatchers, pending_tickets, tsys,
                conns, to_client, written, now, record_log>>
protoVars == <<stream, handler>>
codecVars == <<codec>>
jobVars == <<jobs, new_job_id, queues, channels, job_clients, returned, abort_result>>
lockVars == <<guards, calls>>
vars == <<sessions, tasks, accepted, peer,
          workers, records, ticket_records, tickets, reports,
          files, dirs, clients, answered, lastPut,
          ticket_queue, ticket_log, dispatchers, pending_tickets, tsys,
          conns, to_client, written, now, record_log,
          stream, handler, codec,
          jobs, new_job_id, queues, channels, job_clients, returned, abort_result,
          guards, calls>>

(***************************************************************************)
(*                         line-reversal: LRCP                             *)
(***************************************************************************)
SessionIds == {12345}
Addrs == {"peer", "other"}
\* the session tasks the listener may spawn: one incarnation of the session id
Tasks == {1}

\* the peer's byte stream: distinct bytes, so that a duplicated or reordered
\* byte shows in what the application reads
B == [i \in 1..MaxB |-> 96 + i]

Min(a, b) == IF a < b THEN a ELSE b

IsPrefix(s, t) == Len(s) <= Len(t) /\ SubSeq(t, 1, Len(s)) = s

\* &text[n..]
DropFirst(s, n) == SubSeq(s, n + 1, Len(s))

\* connection.rs:22-25  enum InternalMessage
AckMsg(len) == [ty |-> "Ack", len |-> len, position |-> 0, text |-> <<>>]
DataMsg(position, text) == [ty |-> "Data", len |-> 0, position |-> position, text |-> text]

\* connection.rs:35-69  the state spawn() creates for one session
NewTask(session, addr) ==
    [ state |-> "running",          \* running | done (the select! of spawn returned)
      session |-> session,
      addr |-> addr,                \* Connection.addr and Handler.addr
      from_server |-> <<>>,         \* mpsc channel listener -> listen_to_server
      ack |-> 0,                    \* listen_to_server: let mut ack = 0
      data_to_client |-> <<>>,      \* mpsc channel listen_to_server -> listen_to_client
      writing |-> <<>>,             \* rest of the chunk write_all is writing
      stream |-> <<>>,              \* bytes written into the application's stream
      appOpen |-> TRUE,             \* the application still holds its end
      appOut |-> 0,                 \* bytes the application wrote, not yet read
      appWritten |-> 0,             \* bytes the application wrote in total
      wide |-> {},                  \* offsets in the application's output where a
                                    \* two-byte UTF-8 character starts
      data_from_client |-> <<>>,    \* mpsc channel(1) listen_to_client -> data_sender
      receive_ack |-> <<>>,         \* unbounded channel listen_to_server -> data_sender
      sent_len |-> 0,               \* Connection.sent_len
      pc |-> "recv",                \* data_sender: recv (line 183) | wait (line 201)
      position |-> 0,               \* data_sender locals
      sender_ack |-> 0,
      sent_so_far |-> 0,
      data_len |-> 0,
      ticks |-> 0,                  \* retry ticks fired since the intervals were created
      idle |-> 0,                   \* retransmission periods since the last peer datagram
      lastAck |-> 0,                \* length of the last /ack/ datagram sent
      lastData |-> <<>>,            \* <<position, length>> of the last /data/ datagram sent
      overlap |-> FALSE,            \* a Data segment starting below ack was handled
      closeSent |-> FALSE,          \* /close/ sent by the task (connection.rs:62-65)
      endedBy |-> "",               \* which future of the select! returned
      ackedAtClose |-> -1,          \* lastAck when the peer's Close arrived
      sentAtEnd |-> 0 ]             \* sent_len when the task ended

UnusedTask == [NewTask(0, "peer") EXCEPT !.state = "unused"]

LrcpInit ==
    /\ sessions = [s \in SessionIds |-> 0]
    /\ tasks = [t \in Tasks |-> UnusedTask]
    /\ accepted = <<>>
    /\ peer = [alive |-> TRUE, recv |-> 0, ackDue |-> FALSE, lost |-> 0, everLost |-> FALSE]

\* connection.rs:55-66  one future of the select! returned: the others are
\* dropped with what their channels hold, and /close/ is sent
EndTask(tk, why) ==
    [UnusedTask EXCEPT !.state = "done", !.closeSent = TRUE, !.endedBy = why,
                       !.session = tk.session, !.addr = tk.addr,
                       !.stream = tk.stream, !.appOpen = tk.appOpen,
                       !.idle = tk.idle, !.lastAck = tk.lastAck,
                       !.overlap = tk.overlap,
                       !.ackedAtClose = tk.ackedAtClose,
                       !.sentAtEnd = tk.sent_len]

\* a byte-indexed String operation panics inside the spawned task: the task
\* dies before connection.rs:62-65 sends /close/
PanicTask(tk) == [EndTask(tk, "panic") EXCEPT !.closeSent = FALSE]

Running(t) == tasks[t].state = "running"

\* a datagram for the session arrived: the ghost idle clock restarts
Heard(tk) == [tk EXCEPT !.idle = 0]

(***************************************************************************)
(* The demultiplexer: listener.rs:45-132, one action per datagram kind.    *)
(* The datagram (kind, session, fields) and its sender address are inputs. *)
(***************************************************************************)

\* listener.rs:62-84  MessageType::Connect
RecvConnect(s, a) ==
    /\ IF sessions[s] = 0
       THEN \* listener.rs:63-75  vacant entry: spawn, queue the stream, insert
            \E t \in Tasks :
               /\ tasks[t].state = "unused"
               /\ \A u \in Tasks : u < t => tasks[u].state # "unused"
               /\ tasks' = [tasks EXCEPT ![t] = NewTask(s, a)]
               /\ sessions' = [sessions EXCEPT ![s] = t]
               /\ accepted' = Append(accepted, t)
       ELSE \* listener.rs:78-83  the reply is /ack/SESSION/0/ either way
            /\ tasks' = [tasks EXCEPT ![sessions[s]] =
                            [Heard(@) EXCEPT !.lastAck = 0]]
            /\ UNCHANGED <<sessions, accepted>>
    /\ UNCHANGED <<peer, speedVars, storeVars, daemonVars, protoVars, codecVars, jobVars, lockVars>>

\* listener.rs:85-97  MessageType::Close
RecvClose(s, a) ==
    /\ LET t == sessions[s] IN
       IF t = 0
       THEN \* no entry: only the reply /close/SESSION/ is sent
            UNCHANGED <<sessions, tasks>>
       ELSE
       IF a = tasks[t].addr
       THEN \* the handler, and with it the sender of from_server, is dropped
            /\ sessions' = [sessions EXCEPT ![s] = 0]
            /\ tasks' = [tasks EXCEPT ![t] =
                            [Heard(@) EXCEPT !.ackedAtClose = tasks[t].lastAck]]
       ELSE /\ tasks' = [tasks EXCEPT ![t] = Heard(@)]
            /\ UNCHANGED sessions
    /\ UNCHANGED <<accepted, peer, speedVars, storeVars, daemonVars, protoVars, codecVars, jobVars, lockVars>>

\* connection.rs:246-256  Handler::ack / Handler::data: try_send, the error
\* (buffer full, or the task has ended and dropped the receiver) is ignored
TrySend(tk, msg) ==
    IF tk.state = "running" /\ Len(tk.from_server) < IncomingBufferSize
    THEN [tk EXCEPT !.from_server = Append(@, msg)]
    ELSE tk

\* listener.rs:98-112  MessageType::Ack
ListenerAck(s, a, len) ==
    /\ sessions[s] # 0
    /\ tasks' = [tasks EXCEPT ![sessions[s]] = TrySend(Heard(@), AckMsg(len))]
    /\ UNCHANGED <<sessions, accepted, speedVars, storeVars, daemonVars, protoVars, codecVars, jobVars, lockVars>>

\* an Ack datagram from any sender
RecvAck(s, a, len) ==
    /\ ListenerAck(s, a, len)
    /\ UNCHANGED peer

\* listener.rs:113-127  MessageType::Data
RecvData(s, a, position, text) ==
    /\ sessions[s] # 0
    /\ tasks' = [tasks EXCEPT ![sessions[s]] =
                    TrySend(Heard(@), DataMsg(position, text))]
    /\ UNCHANGED <<sessions, accepted, peer, speedVars, storeVars, daemonVars, protoVars, codecVars, jobVars, lockVars>>

\* the Data datagrams of a peer that sends segments of its stream B
Segments ==
    UNION {{<<p, SubSeq(B, p + 1, p + n)>> : n \in 0..(MaxB - p)} : p \in 0..MaxB}

\* the UTF-8 encoding of U+00E9, a character of two bytes
WideText == <<195, 169>>

\* Data datagrams whose text is that character, at the first positions
WideSegments == {<<p, WideText>> : p \in 0..1}

(***************************************************************************)
(* The session task: connection.rs:71-235.  Its three futures run under    *)
(* one select!; each action below is one step of one of them between two   *)
(* awaits.                                                                 *)
(***************************************************************************)

\* ServerAck without the comparison with sent_len
ServerAckUnchecked(tk, len) ==
    IF len <= tk.sender_ack THEN tk ELSE [tk EXCEPT !.receive_ack = Append(@, len)]

\* connection.rs:80-89  listen_to_server, InternalMessage::Ack
ServerAck(tk, len) ==
    IF len > tk.sent_len
    THEN EndTask(tk, "ack_beyond_sent")
    ELSE IF len <= tk.sender_ack
    THEN \* data_sender drops such an ack whenever it receives it
         \* (connection.rs:211-213, its ack never decreases): not queued here
         tk
    ELSE [tk EXCEPT !.receive_ack = Append(@, len)]

\* ServerData with the whole segment delivered instead of its new suffix
ServerDataNoTrim(tk, position, text) ==
    IF position <= tk.ack /\ text # <<>> /\ Len(tk.data_to_client) < InternalBufferSize
    THEN [tk EXCEPT !.data_to_client = Append(@, text),
                    !.ack = @ + Len(text),
                    !.lastAck = tk.ack + Len(text),
                    !.overlap = @ \/ position < tk.ack]
    ELSE tk

\* str::is_char_boundary: a String is indexed by bytes, and an index inside
\* the UTF-8 encoding of a character (before a continuation byte) is none
IsCharBoundary(text, i) ==
    i = 0 \/ i >= Len(text) \/ text[i + 1] \notin 128..191

\* connection.rs:90-126  listen_to_server, InternalMessage::Data
ServerData(tk, position, text) ==
    IF position <= tk.ack
    THEN LET old_data == tk.ack - position IN
         IF old_data < Len(text)
         THEN LET relevant_data == DropFirst(text, old_data) IN
              IF ~IsCharBoundary(text, old_data)
              THEN \* &text[old_data..] panics (connection.rs:97)
                   PanicTask(tk)
              ELSE
              IF Len(tk.data_to_client) < InternalBufferSize
              THEN \* try_send succeeded: count the bytes, then ack
                   [tk EXCEPT !.data_to_client = Append(@, relevant_data),
                              !.ack = @ + Len(relevant_data),
                              !.lastAck = tk.ack + Len(relevant_data),
                              !.overlap = @ \/ old_data > 0]
              ELSE \* TrySendError::Full: continue, nothing is sent
                   tk
         ELSE [tk EXCEPT !.lastAck = tk.ack, !.overlap = @ \/ old_data > 0]
    ELSE [tk EXCEPT !.lastAck = tk.ack]

\* connection.rs:78-79  from_server.recv() returned a message
ServerRecv(t) ==
    /\ Running(t)
    /\ tasks[t].from_server # <<>>
    /\ LET msg == Head(tasks[t].from_server)
           tk == [tasks[t] EXCEPT !.from_server = Tail(@)]
       IN  /\ (msg.ty = "Ack" /\ tk.sender_ack < msg.len /\ msg.len <= tk.sent_len)
                 => Len(tk.receive_ack) < MaxAckQueue
           /\ tasks' = [tasks EXCEPT ![t] =
                           IF msg.ty = "Ack"
                           THEN ServerAck(tk, msg.len)
                           ELSE ServerData(tk, msg.position, msg.text)]
    /\ UNCHANGED <<sessions, accepted, peer, speedVars, storeVars, daemonVars, protoVars, codecVars, jobVars, lockVars>>

\* connection.rs:78, 130-131  from_server.recv() returned None: the listener
\* dropped the handler (a Close from the bound address) and the buffer is empty
ServerClosed(t) ==
    /\ Running(t)
    /\ sessions[tasks[t].session] # t
    /\ tasks[t].from_server = <<>>
    /\ tasks' = [tasks EXCEPT ![t] = EndTask(@, "peer_close")]
    /\ UNCHANGED <<sessions, accepted, peer, speedVars, storeVars, daemonVars, protoVars, codecVars, jobVars, lockVars>>

\* connection.rs:161-166  listen_to_client, map_receiver_to_writer_fut: take a
\* chunk from data_to_client and write it; the stream accepts n bytes now and
\* write_all keeps the rest
ClientWrite(t, n) ==
    /\ Running(t)
    /\ tasks[t].appOpen
    /\ LET chunk == IF tasks[t].writing # <<>> THEN tasks[t].writing
                    ELSE IF tasks[t].data_to_client # <<>>
                         THEN Head(tasks[t].data_to_client) ELSE <<>>
       IN  /\ chunk # <<>>
           /\ n \in 1..Len(chunk)
           /\ tasks' = [tasks EXCEPT ![t] =
                 [@ EXCEPT !.data_to_client =
                               IF tasks[t].writing # <<>> THEN @ ELSE Tail(@),
                           !.writing = DropFirst(chunk, n),
                           !.stream = @ \o SubSeq(chunk, 1, n)]]
    /\ UNCHANGED <<sessions, accepted, peer, speedVars, storeVars, daemonVars, protoVars, codecVars, jobVars, lockVars>>

\* the application (main.rs:16-39 for line-reversal) writes n bytes to its stream
AppWrite(t, n) ==
    /\ Running(t)
    /\ tasks[t].appOpen
    /\ n >= 1
    /\ tasks[t].appWritten + n <= MaxOut
    /\ tasks' = [tasks EXCEPT ![t] =
                    [@ EXCEPT !.appOut = @ + n, !.appWritten = @ + n]]
    /\ UNCHANGED <<sessions, accepted, peer, speedVars, storeVars, daemonVars, protoVars, codecVars, jobVars, lockVars>>

\* the application writes a character whose UTF-8 encoding has two bytes
AppWriteChar(t) ==
    /\ Running(t)
    /\ tasks[t].appOpen
    /\ tasks[t].appWritten + 2 <= MaxOut
    /\ tasks' = [tasks EXCEPT ![t] =
                    [@ EXCEPT !.appOut = @ + 2, !.appWritten = @ + 2,
                              !.wide = @ \cup {tasks[t].appWritten}]]
    /\ UNCHANGED <<sessions, accepted, peer, speedVars, storeVars, daemonVars, protoVars, codecVars, jobVars, lockVars>>

\* the application drops its end of the stream
AppClose(t) ==
    /\ tasks[t].state # "unused"
    /\ tasks[t].appOpen
    /\ tasks' = [tasks EXCEPT ![t] = [@ EXCEPT !.appOpen = FALSE]]
    /\ UNCHANGED <<sessions, accepted, peer, speedVars, storeVars, daemonVars, protoVars, codecVars, jobVars, lockVars>>

\* connection.rs:142-156  listen_to_client, map_reader_to_sender_fut: read up to
\* MAX_DATA_SIZE bytes and send them to data_sender (mpsc::channel(1)).  The
\* block must be a String: String::from_utf8 fails on a block that ends
\* inside a character, and listen_to_client returns the error.
ClientRead(t, n) ==
    /\ Running(t)
    /\ n \in 1..Min(tasks[t].appOut, MAX_DATA_SIZE)
    /\ Len(tasks[t].data_from_client) < 1
    /\ LET start == tasks[t].appWritten - tasks[t].appOut IN
       tasks' = [tasks EXCEPT ![t] =
                    IF (start + n - 1) \in tasks[t].wide
                    THEN EndTask(@, "utf8_error")
                    ELSE [@ EXCEPT !.appOut = @ - n,
                                   !.data_from_client = Append(@, n)]]
    /\ UNCHANGED <<sessions, accepted, peer, speedVars, storeVars, daemonVars, protoVars, codecVars, jobVars, lockVars>>

\* connection.rs:145-148, 169-172  the read returned 0 (or the write failed)
\* after the application dropped its end: listen_to_client returns
ClientEof(t) ==
    /\ Running(t)
    /\ ~tasks[t].appOpen
    /\ \/ tasks[t].appOut = 0
       \/ tasks[t].writing # <<>>
       \/ tasks[t].data_to_client # <<>>
    /\ tasks' = [tasks EXCEPT ![t] = EndTask(@, "app_close")]
    /\ UNCHANGED <<sessions, accepted, peer, speedVars, storeVars, daemonVars, protoVars, codecVars, jobVars, lockVars>>

\* connection.rs:183-199  data_sender: receive_data.recv() returned a chunk;
\* the two intervals are created for its first message
SenderRecv(t) ==
    /\ Running(t)
    /\ tasks[t].pc = "recv"
    /\ tasks[t].data_from_client # <<>>
    /\ tasks' = [tasks EXCEPT ![t] =
                    [@ EXCEPT !.data_from_client = Tail(@),
                              !.data_len = Head(tasks[t].data_from_client),
                              !.sent_so_far = 0,
                              !.ticks = 0,
                              !.pc = "wait"]]
    /\ UNCHANGED <<sessions, accepted, peer, speedVars, storeVars, daemonVars, protoVars, codecVars, jobVars, lockVars>>

\* saturating ghost clock
Later(i) == Min(i + 1, ExpiryTicks + 1)

\* connection.rs:203-207  retry_interval.tick(): send the message, set sent_len.
\* The first tick of an interval is immediate; each later one is one
\* RETRANSMISSION_TIMEOUT after the one before.
RetryTick(t) ==
    /\ Running(t)
    /\ tasks[t].pc = "wait"
    /\ tasks[t].ticks <= ExpiryTicks
    /\ tasks' = [tasks EXCEPT ![t] =
                    [@ EXCEPT !.lastData = <<tasks[t].position + tasks[t].sent_so_far,
                                             tasks[t].data_len - tasks[t].sent_so_far>>,
                              !.sent_len = tasks[t].position + tasks[t].data_len,
                              !.idle = IF tasks[t].ticks = 0 THEN @ ELSE Later(@),
                              !.ticks = @ + 1]]
    /\ UNCHANGED <<sessions, accepted, peer, speedVars, storeVars, daemonVars, protoVars, codecVars, jobVars, lockVars>>

\* connection.rs:209  session_expiry_interval.tick(): SESSION_EXPIRY_TIMEOUT
\* after the intervals were created, i.e. when retry tick ExpiryTicks + 1 is due
Expire(t) ==
    /\ Running(t)
    /\ tasks[t].pc = "wait"
    /\ tasks[t].ticks >= ExpiryTicks
    /\ tasks' = [tasks EXCEPT ![t] =
                    EndTask([@ EXCEPT !.idle = IF tasks[t].ticks = ExpiryTicks
                                                THEN Later(@) ELSE @],
                            "expiry")]
    /\ UNCHANGED <<sessions, accepted, peer, speedVars, storeVars, daemonVars, protoVars, codecVars, jobVars, lockVars>>

\* connection.rs:210-223  Some(ack_len) = receive_ack.recv()
SenderAck(t) ==
    /\ Running(t)
    /\ tasks[t].pc = "wait"
    /\ tasks[t].receive_ack # <<>>
    /\ LET ack_len == Head(tasks[t].receive_ack)
           tk == [tasks[t] EXCEPT !.receive_ack = Tail(@)]
       IN  tasks' = [tasks EXCEPT ![t] =
              IF ack_len <= tk.sender_ack
              THEN tk
              ELSE IF ack_len > tk.position + tk.data_len
              THEN EndTask(tk, "ack_beyond_data")
              ELSE IF ack_len - tk.position < tk.data_len
              THEN \* break; the while loop builds the next message and new
                   \* intervals; data[sent_so_far..] panics inside a character
                   IF (ack_len - 1) \in tk.wide
                   THEN PanicTask(tk)
                   ELSE [tk EXCEPT !.sender_ack = ack_len,
                                   !.sent_so_far = ack_len - tk.position,
                                   !.ticks = 0]
              ELSE \* the chunk is acknowledged: position += sent_so_far, recv again
                   [tk EXCEPT !.sender_ack = ack_len,
                              !.sent_so_far = 0,
                              !.data_len = 0,
                              !.ticks = 0,
                              !.position = ack_len,
                              !.pc = "recv"]]
    /\ UNCHANGED <<sessions, accepted, peer, speedVars, storeVars, daemonVars, protoVars, codecVars, jobVars, lockVars>>

\* one RETRANSMISSION_TIMEOUT passes while data_sender waits in
\* receive_data.recv() (connection.rs:183): no timer runs there
IdleTick(t) ==
    /\ Running(t)
    /\ tasks[t].pc = "recv"
    /\ tasks[t].idle <= ExpiryTicks
    /\ tasks' = [tasks EXCEPT ![t] = [@ EXCEPT !.idle = Later(@)]]
    /\ UNCHANGED <<sessions, accepted, peer, speedVars, storeVars, daemonVars, protoVars, codecVars, jobVars, lockVars>>

\* acknowledgment lengths a peer may send: up to one beyond what can be sent
AckLens == 0..(MaxOut + 1)

\* the peer sends segments of B in any order, any number of times; the
\* application reads and never writes
LrcpInNext ==
    \/ \E s \in SessionIds, a \in Addrs :
          \/ RecvConnect(s, a)
          \/ RecvClose(s, a)
          \/ \E len \in AckLens : RecvAck(s, a, len)
          \/ \E seg \in Segments : RecvData(s, a, seg[1], seg[2])
    \/ \E t \in Tasks :
          \/ ServerRecv(t)
          \/ ServerClosed(t)
          \/ \E n \in 1..MaxB : ClientWrite(t, n)
          \/ AppClose(t)
          \/ ClientEof(t)
          \/ IdleTick(t)

\* as LrcpInNext, with a peer whose Data datagrams carry any text: segments
\* of B and segments with a character of two bytes
LrcpDataNext ==
    \/ \E s \in SessionIds, a \in Addrs :
          \/ RecvConnect(s, a)
          \/ RecvClose(s, a)
          \/ \E len \in AckLens : RecvAck(s, a, len)
          \/ \E seg \in Segments \cup WideSegments : RecvData(s, a, seg[1], seg[2])
    \/ \E t \in Tasks :
          \/ ServerRecv(t)
          \/ ServerClosed(t)
          \/ \E n \in 1..(MaxB + 2) : ClientWrite(t, n)
          \/ AppClose(t)
          \/ ClientEof(t)
          \/ IdleTick(t)

\* the peer connects from its address; every Data and Ack datagram for the
\* session comes from another address; the application reads and writes
LrcpOtherNext ==
    \/ \E s \in SessionIds :
          \/ RecvConnect(s, "peer")
          \/ \E len \in AckLens : RecvAck(s, "other", len)
          \/ \E seg \in Segments : RecvData(s, "other", seg[1], seg[2])
    \/ \E t \in Tasks :
          \/ ServerRecv(t)
          \/ \E n \in 1..MaxB : ClientWrite(t, n)
          \/ \E n \in 1..MaxOut : AppWrite(t, n)
          \/ \E n \in 1..MaxOut : ClientRead(t, n)
          \/ SenderRecv(t)
          \/ RetryTick(t)
          \/ SenderAck(t)

\* the application writes; the peer sends Connect, Ack and Close, and no Data
LrcpOutNext ==
    \/ \E s \in SessionIds, a \in Addrs :
          \/ RecvConnect(s, a)
          \/ RecvClose(s, a)
          \/ \E len \in AckLens : RecvAck(s, a, len)
    \/ \E t \in Tasks :
          \/ ServerRecv(t)
          \/ ServerClosed(t)
          \/ \E n \in 1..MaxOut : AppWrite(t, n)
          \/ AppWriteChar(t)
          \/ AppClose(t)
          \/ \E n \in 1..MaxOut : ClientRead(t, n)
          \/ ClientEof(t)
          \/ SenderRecv(t)
          \/ RetryTick(t)
          \/ Expire(t)
          \/ SenderAck(t)
          \/ IdleTick(t)

(***************************************************************************)
(* A peer that receives the session's /data/ datagrams and acknowledges    *)
(* what it has received, over a network that loses datagrams but not more  *)
(* than MaxLoss in a row.  tasks[t].lastData is the datagram in flight to  *)
(* the peer, peer.ackDue the acknowledgment in flight to the server.       *)
(***************************************************************************)

\* consecutive losses the network may inflict: a retransmission gets through
\* within the expiry window
MaxLoss == ExpiryTicks - 1

Max(a, b) == IF a < b THEN b ELSE a

\* the peer takes the first n bytes of the datagram connection.rs:204 sent
PeerRecvData(t, n) ==
    /\ peer.alive
    /\ tasks[t].lastData # <<>>
    /\ n \in 1..tasks[t].lastData[2]
    /\ LET position == tasks[t].lastData[1] IN
       peer' = [peer EXCEPT !.recv = IF position <= @ THEN Max(@, position + n) ELSE @,
                            !.ackDue = TRUE]
    /\ tasks' = [tasks EXCEPT ![t] = [@ EXCEPT !.lastData = <<>>]]
    /\ UNCHANGED <<sessions, accepted, speedVars, storeVars, daemonVars, protoVars, codecVars, jobVars, lockVars>>

\* the peer's /ack/SESSION/recv/ reaches the listener (listener.rs:98-112)
PeerSendAck(s) ==
    /\ peer.alive
    /\ peer.ackDue
    /\ ListenerAck(s, "peer", peer.recv)
    /\ peer' = [peer EXCEPT !.ackDue = FALSE, !.lost = 0]

\* the network drops the /data/ datagram in flight
LoseData(t) ==
    /\ peer.alive
    /\ tasks[t].lastData # <<>>
    /\ peer.lost < MaxLoss
    /\ peer' = [peer EXCEPT !.lost = @ + 1, !.everLost = TRUE]
    /\ tasks' = [tasks EXCEPT ![t] = [@ EXCEPT !.lastData = <<>>]]
    /\ UNCHANGED <<sessions, accepted, speedVars, storeVars, daemonVars, protoVars, codecVars, jobVars, lockVars>>

\* the network drops the /ack/ datagram in flight
LoseAck ==
    /\ peer.alive
    /\ peer.ackDue
    /\ peer.lost < MaxLoss
    /\ peer' = [peer EXCEPT !.ackDue = FALSE, !.lost = @ + 1, !.everLost = TRUE]
    /\ UNCHANGED <<sessions, tasks, accepted, speedVars, storeVars, daemonVars, protoVars, codecVars, jobVars, lockVars>>

\* the peer goes away for good
PeerStops ==
    /\ peer.alive
    /\ peer' = [peer EXCEPT !.alive = FALSE]
    /\ UNCHANGED <<sessions, tasks, accepted, speedVars, storeVars, daemonVars, protoVars, codecVars, jobVars, lockVars>>

\* nothing is left to do before the next timer fires: handling a datagram takes
\* far less than RETRANSMISSION_TIMEOUT (mod.rs:3)
Quiet(t) ==
    /\ tasks[t].from_server = <<>>
    /\ tasks[t].receive_ack = <<>>
    /\ peer.alive => (tasks[t].lastData = <<>> /\ ~peer.ackDue)

\* connection.rs:203  the first tick is immediate, the later ones take time
TimedRetryTick(t) ==
    /\ tasks[t].ticks > 0 => Quiet(t)
    /\ RetryTick(t)

\* connection.rs:209  the expiry tick takes time
TimedExpire(t) ==
    /\ Quiet(t)
    /\ Expire(t)

\* the application writes, the peer connects from its address and acknowledges
LrcpLiveNext ==
    \/ \E s \in SessionIds :
          \/ RecvConnect(s, "peer")
          \/ PeerSendAck(s)
    \/ LoseAck
    \/ PeerStops
    \/ \E t \in Tasks :
          \/ ServerRecv(t)
          \/ \E n \in 1..MaxOut : AppWrite(t, n)
          \/ AppWriteChar(t)
          \/ \E n \in 1..MaxOut : ClientRead(t, n)
          \/ SenderRecv(t)
          \/ TimedRetryTick(t)
          \/ TimedExpire(t)
          \/ SenderAck(t)
          \/ \E n \in 1..MaxOut : PeerRecvData(t, n)
          \/ LoseData(t)

\* the runtime runs every ready future and fires every due timer; a datagram
\* in flight is delivered or lost
LrcpLiveFairness ==
    /\ \A t \in Tasks :
          /\ WF_vars(ServerRecv(t))
          /\ WF_vars(\E n \in 1..MaxOut : ClientRead(t, n))
          /\ WF_vars(SenderRecv(t))
          /\ WF_vars(TimedRetryTick(t))
          /\ WF_vars(TimedExpire(t))
          /\ WF_vars(SenderAck(t))
          /\ WF_vars((\E n \in 1..MaxOut : PeerRecvData(t, n)) \/ LoseData(t))
    /\ WF_vars((\E s \in SessionIds : PeerSendAck(s)) \/ LoseAck)


(***************************************************************************)
(*                 voracious-code-storage: the revision store              *)
(***************************************************************************)

Conns == {1, 2}
\* File names, directory paths and file contents are sequences of bytes.
\* the files the connections of SpecStore PUT and GET: "/a", "/d/b"
FileNames == {<<47, 97>>, <<47, 100, 47, 98>>}
\* the files the requests of SpecProto name: "/a", "/a/b", "/B"
ProtoFileNames == {<<47, 97>>, <<47, 97, 47, 98>>, <<47, 66>>}
\* the file contents the clients PUT
Contents == {<<120>>, <<121, 122>>}
\* GET's revision argument: NoRevision stands for Option::None
NoRevision == -1
Revisions == {NoRevision, 1, 2, 3}

RECURSIVE Digest(_)
\* protocol/connection.rs:91, 123, 136  Sha1 of the body: a function of the
\* bytes alone, without collisions on the contents of the model
Digest(b) == IF b = <<>> THEN 1 ELSE Head(b) + 256 * Digest(Tail(b))

RECURSIVE Split(_, _)
\* str::split(sep): the parts between the separators, empty parts included
Split(s, sep) ==
    LET at == {i \in 1..Len(s) : s[i] = sep}
    IN  IF at = {} THEN <<s>>
        ELSE LET i == CHOOSE j \in at : \A k \in at : j <= k
             IN  <<SubSeq(s, 1, i - 1)>> \o Split(SubSeq(s, i + 1, Len(s)), sep)

RECURSIVE DirPath(_, _)
\* storage.rs:82, 92-93  path after the first k directory names: "/" d1 "/" ... dk "/"
DirPath(parts, k) ==
    IF k = 0 THEN <<47>> ELSE DirPath(parts, k - 1) \o parts[k] \o <<47>>

\* storage.rs:82-99  what insert adds to each directory: <<directory, kind, name>>
DirItems(f) ==
    LET parts == Split(SubSeq(f, 2, Len(f)), 47)
        n == Len(parts)
    IN  {<<DirPath(parts, k - 1), "Dir", parts[k]>> : k \in 1..(n - 1)}
           \cup {<<DirPath(parts, n - 1), "File", parts[n]>>}

\* the directories of the files of the model: "/", "/d/", "/a/"
DirNames == {i[1] : i \in UNION {DirItems(f) : f \in FileNames \cup ProtoFileNames}}

\* storage.rs:87-90, 96-99, 154-164  BTreeSet::insert under an order that
\* compares the names alone: an item whose name is in the set is not inserted
DirInsert(children, item) ==
    IF \E i \in children : i[2] = item[2] THEN children ELSE children \cup {item}

\* storage.rs:8-12  TempFile::default()
EmptyTempFile == [revisions |-> <<>>, hashes |-> <<>>]

\* a connection between two requests
Idle == [pc |-> "ready", file |-> <<47, 97>>, body |-> <<>>, revision |-> 0,
         latest |-> FALSE, out |-> <<>>, len |-> 0, want |-> <<>>, err |-> ""]

StoreInit ==
    /\ files = [f \in FileNames \cup ProtoFileNames |-> EmptyTempFile]
    /\ dirs = [d \in DirNames |-> {}]
    /\ clients = [c \in Conns |-> Idle]
    /\ answered = {}
    /\ lastPut = [f \in FileNames |-> <<>>]

\* HashMap::get on hashes, a sequence of <<hash, revision>> entries
Lookup(hashes, hash) ==
    LET hit == {i \in 1..Len(hashes) : hashes[i][1] = hash}
    IN  IF hit = {} THEN 0 ELSE hashes[CHOOSE i \in hit : TRUE][2]

\* TempFileInsert without the lookup in hashes
TempFileInsertAlways(tf, body, hash) ==
    <<[revisions |-> Append(tf.revisions, [content |-> body, cursor |-> Len(body)]),
       hashes |-> Append(tf.hashes, <<hash, Len(tf.revisions) + 1>>)],
      Len(tf.revisions) + 1>>

\* TempFileInsert that stores the new content in place of the last revision
TempFileInsertInPlace(tf, body, hash) ==
    IF Lookup(tf.hashes, hash) # 0
    THEN <<tf, Lookup(tf.hashes, hash)>>
    ELSE IF tf.revisions = <<>>
    THEN TempFileInsertAlways(tf, body, hash)
    ELSE <<[revisions |-> [tf.revisions EXCEPT ![Len(tf.revisions)] =
                              [content |-> body, cursor |-> Len(body)]],
            hashes |-> Append(tf.hashes, <<hash, Len(tf.revisions)>>)],
           Len(tf.revisions)>>

\* storage.rs:15-27  TempFile::insert: <<the file afterwards, the revision>>.
\* The temp file comes from the PUT that wrote it: its cursor is at its end.
TempFileInsert(tf, body, hash) ==
    IF Lookup(tf.hashes, hash) # 0
    THEN <<tf, Lookup(tf.hashes, hash)>>
    ELSE <<[revisions |-> Append(tf.revisions, [content |-> body, cursor |-> Len(body)]),
           hashes |-> Append(tf.hashes, <<hash, Len(tf.revisions) + 1>>)],
          Len(tf.revisions) + 1>>

\* storage.rs:40-42
GetLastRevision(tf) == Len(tf.revisions)

\* storage.rs:81-99  TempFileSystem::insert, the directories: the file's
\* ancestors each get the next directory name, its parent gets the file name
DirsInsert(ds, f) ==
    [d \in DOMAIN ds |->
        LET add == {i \in DirItems(f) : i[1] = d}
        IN  IF add = {} THEN ds[d]
            ELSE LET i == CHOOSE j \in add : TRUE
                 IN  DirInsert(ds[d], <<i[2], i[3]>>)]

\* protocol/connection.rs:82-138  a PUT request line and its body are read:
\* the body is in a temp file and hashed
ReadPut(c, f, body) ==
    /\ clients[c].pc = "ready"
    /\ clients' = [clients EXCEPT ![c] =
                      [Idle EXCEPT !.pc = "insert", !.file = f, !.body = body]]
    /\ UNCHANGED <<files, dirs, answered, lastPut, lrcpVars, speedVars, daemonVars, protoVars, codecVars, jobVars, lockVars>>

\* main.rs:40, storage.rs:76-102  TempFileSystem::insert, under the lock of
\* the entry of files
PutInsert(c) ==
    /\ clients[c].pc = "insert"
    /\ LET f == clients[c].file
           r == TempFileInsert(files[f], clients[c].body, Digest(clients[c].body))
       IN  /\ files' = [files EXCEPT ![f] = r[1]]
           /\ dirs' = DirsInsert(dirs, f)
           /\ clients' = [clients EXCEPT ![c] =
                             [@ EXCEPT !.pc = "respond_put", !.revision = r[2]]]
           /\ lastPut' = [lastPut EXCEPT ![f] = clients[c].body]
    /\ UNCHANGED <<answered, lrcpVars, speedVars, daemonVars, protoVars, codecVars, jobVars, lockVars>>

\* main.rs:41, 55, protocol/connection.rs:227-231, 264  OK r<revision>, READY
RespondPut(c) ==
    /\ clients[c].pc = "respond_put"
    /\ answered' = answered \cup
                      {<<clients[c].file, clients[c].revision, clients[c].body>>}
    /\ clients' = [clients EXCEPT ![c] = Idle]
    /\ UNCHANGED <<files, dirs, lastPut, lrcpVars, speedVars, daemonVars, protoVars, codecVars, jobVars, lockVars>>

\* protocol/connection.rs:79-81  a GET request line is read
ReadGet(c, f, revision) ==
    /\ clients[c].pc = "ready"
    /\ clients' = [clients EXCEPT ![c] =
                      [Idle EXCEPT !.pc = "get", !.file = f, !.revision = revision,
                                   !.latest = (revision = NoRevision)]]
    /\ UNCHANGED <<files, dirs, answered, lastPut, lrcpVars, speedVars, daemonVars, protoVars, codecVars, jobVars, lockVars>>

\* main.rs:43-46, storage.rs:109-125, 29-38  TempFileSystem::get: the handle
\* returned is a try_clone of the stored revision's handle, it shares the
\* cursor of the stored file
GetLookup(c) ==
    /\ clients[c].pc = "get"
    /\ LET f == clients[c].file
           tf == files[f]
           revision == IF clients[c].revision = NoRevision
                       THEN GetLastRevision(tf) ELSE clients[c].revision
       IN  clients' = [clients EXCEPT ![c] =
              IF tf.revisions = <<>>
              THEN [@ EXCEPT !.pc = "respond_err", !.err = "no such file"]
              ELSE IF revision > Len(tf.revisions)
              THEN [@ EXCEPT !.pc = "respond_err", !.err = "no such revision"]
              ELSE [@ EXCEPT !.pc = "seek",
                             !.want = IF clients[c].revision = NoRevision
                                      THEN lastPut[f]
                                      ELSE tf.revisions[revision].content,
                             !.revision = revision]]
    /\ UNCHANGED <<files, dirs, answered, lastPut, lrcpVars, speedVars, daemonVars, protoVars, codecVars, jobVars, lockVars>>

\* protocol/connection.rs:187-191, 264  ERR <reason>, READY
RespondErr(c) ==
    /\ clients[c].pc = "respond_err"
    /\ clients' = [clients EXCEPT ![c] = Idle]
    /\ UNCHANGED <<files, dirs, answered, lastPut, lrcpVars, speedVars, daemonVars, protoVars, codecVars, jobVars, lockVars>>

\* protocol/connection.rs:199-209  seek to the start, OK <length>
GetSeek(c) ==
    /\ clients[c].pc = "seek"
    /\ LET f == clients[c].file
           k == clients[c].revision
       IN  /\ files' = [files EXCEPT ![f].revisions[k].cursor = 0]
           /\ clients' = [clients EXCEPT ![c] =
                             [@ EXCEPT !.pc = "read",
                                       !.len = Len(files[f].revisions[k].content)]]
    /\ UNCHANGED <<dirs, answered, lastPut, lrcpVars, speedVars, daemonVars, protoVars, codecVars, jobVars, lockVars>>

\* protocol/connection.rs:214-222  one read from the file's cursor
GetRead(c) ==
    /\ clients[c].pc = "read"
    /\ Len(clients[c].out) < MaxResponse
    /\ LET f == clients[c].file
           k == clients[c].revision
           rev == files[f].revisions[k]
           rcount == Min(ReadSize, Len(rev.content) - rev.cursor)
       IN  IF rcount = 0
           THEN \* reached EOF
                /\ clients' = [clients EXCEPT ![c] = [@ EXCEPT !.pc = "get_done"]]
                /\ UNCHANGED files
           ELSE /\ files' = [files EXCEPT ![f].revisions[k].cursor = @ + rcount]
                /\ clients' = [clients EXCEPT ![c] =
                      [@ EXCEPT !.out = @ \o SubSeq(rev.content, rev.cursor + 1,
                                                    rev.cursor + rcount)]]
    /\ UNCHANGED <<dirs, answered, lastPut, lrcpVars, speedVars, daemonVars, protoVars, codecVars, jobVars, lockVars>>

\* protocol/connection.rs:225, 264  flush, READY
GetDone(c) ==
    /\ clients[c].pc = "get_done"
    /\ clients' = [clients EXCEPT ![c] = Idle]
    /\ UNCHANGED <<files, dirs, answered, lastPut, lrcpVars, speedVars, daemonVars, protoVars, codecVars, jobVars, lockVars>>

StoreNext ==
    \E c \in Conns :
       \/ \E f \in FileNames, body \in Contents : ReadPut(c, f, body)
       \/ PutInsert(c)
       \/ RespondPut(c)
       \/ \E f \in FileNames, revision \in Revisions : ReadGet(c, f, revision)
       \/ GetLookup(c)
       \/ RespondErr(c)
       \/ GetSeek(c)
       \/ GetRead(c)
       \/ GetDone(c)

(***************************************************************************)
(* voracious-code-storage: the line protocol (protocol/connection.rs,      *)
(* protocol/message.rs, main.rs:28-59).  stream[c].input holds the bytes   *)
(* the client has sent and the server has not read yet, stream[c].output   *)
(* what the server has written.  One action per read of the socket, with   *)
(* everything handle_connection does until its next read.                  *)
(***************************************************************************)

ProtoConns == {1}

\* what the clients write to their sockets, one write each
RequestTexts ==
    { <<80, 85, 84, 32, 47, 97, 32, 49, 10, 120>>,           \* "PUT /a 1\nx"
      <<80, 85, 84, 32, 47, 97, 32, 49, 10, 121>>,           \* "PUT /a 1\ny"
      <<80, 85, 84, 32, 47, 97, 47, 98, 32, 49, 10, 120>>,   \* "PUT /a/b 1\nx"
      <<80, 85, 84, 32, 47, 66, 32, 49, 10, 120>>,           \* "PUT /B 1\nx"
      \* a PUT of six bytes, the first of them 0x00: "PUT /a 6\n\0HELP\n"
      <<80, 85, 84, 32, 47, 97, 32, 54, 10, 0, 72, 69, 76, 80, 10>>,
      \* a PUT of two bytes with one byte of body: "PUT /a 2\nx"
      <<80, 85, 84, 32, 47, 97, 32, 50, 10, 120>>,
      <<71, 69, 84, 32, 47, 97, 10>>,                        \* "GET /a\n"
      <<71, 69, 84, 32, 47, 97, 32, 114, 48, 10>>,           \* "GET /a r0\n"
      <<71, 69, 84, 32, 47, 97, 32, 50, 10>>,                \* "GET /a 2\n"
      <<76, 73, 83, 84, 32, 47, 10>>,                        \* "LIST /\n"
      <<76, 73, 83, 84, 32, 47, 97, 10>>,                    \* "LIST /a\n"
      <<76, 73, 83, 84, 32, 97, 10>>,                        \* "LIST a\n"
      <<104, 101, 108, 112, 10>>,                            \* "help\n"
      <<102, 111, 111, 10>>,                                 \* "foo\n"
      <<32, 10>>,                                            \* " \n"
      <<71, 69, 84, 32, 97, 10>>,                            \* "GET a\n"
      <<71, 69, 84, 10>> }                                   \* "GET\n"

\* IsTextByte without the check: every byte passes
IsAnyByte(b) == b = b

\* protocol/connection.rs:113-119  the bytes a file may hold:
\* u8::is_ascii_graphic, or one of \r \n space \t
IsTextByte(b) == b \in 33..126 \/ b \in {13, 10, 32, 9}

\* char::is_alphanumeric on one byte
IsAlphanumeric(b) == b \in (48..57) \cup (65..90) \cup (97..122)

\* str::trim: without the leading and trailing bytes that are
\* char::is_whitespace (\t \n VT FF \r space)
Trim(s) ==
    LET inner == {i \in 1..Len(s) : s[i] \notin {9, 10, 11, 12, 13, 32}}
    IN  IF inner = {} THEN <<>>
        ELSE SubSeq(s, CHOOSE i \in inner : \A j \in inner : i <= j,
                       CHOOSE i \in inner : \A j \in inner : i >= j)

RECURSIVE SplitAsciiWhitespace(_)
\* str::split_ascii_whitespace: the non-empty words between the bytes that
\* are u8::is_ascii_whitespace (\t \n FF \r space)
SplitAsciiWhitespace(s) ==
    IF s = <<>> THEN <<>>
    ELSE IF Head(s) \in {9, 10, 12, 13, 32} THEN SplitAsciiWhitespace(Tail(s))
    ELSE LET ws == {i \in 1..Len(s) : s[i] \in {9, 10, 12, 13, 32}}
             end == IF ws = {} THEN Len(s) + 1
                    ELSE CHOOSE i \in ws : \A j \in ws : i <= j
         IN  <<SubSeq(s, 1, end - 1)>> \o
                SplitAsciiWhitespace(SubSeq(s, end, Len(s)))

\* str::to_uppercase on ASCII
ToUppercase(s) == [i \in 1..Len(s) |-> IF s[i] \in 97..122 THEN s[i] - 32 ELSE s[i]]

RECURSIVE ParseU64(_)
\* str::parse::<u64>: an optional '+' and decimal digits, or -1 for Err.
\* The numbers of the model's lines are far below u64::MAX.
ParseU64(s) ==
    IF s = <<>> THEN -1
    ELSE IF s[1] = 43 THEN (IF 43 \in {s[i] : i \in 2..Len(s)} THEN -1 ELSE ParseU64(Tail(s)))
    ELSE IF \E i \in 1..Len(s) : s[i] \notin 48..57 THEN -1
    ELSE IF Len(s) = 1 THEN s[1] - 48
    ELSE 10 * ParseU64(SubSeq(s, 1, Len(s) - 1)) + (s[Len(s)] - 48)

\* protocol/message.rs:250-257
validate_strippted_path(path) ==
    LET parts == Split(path, 47)
    IN  \A k \in 1..Len(parts) :
           /\ parts[k] # <<>>
           /\ \A i \in 1..Len(parts[k]) :
                 IsAlphanumeric(parts[k][i]) \/ parts[k][i] \in {46, 95, 45}

\* protocol/message.rs:200-219
check_filename(filename) ==
    /\ filename # <<>>
    /\ filename[1] = 47
    /\ Trim(Tail(filename)) # <<>>
    /\ validate_strippted_path(Tail(filename))

\* protocol/message.rs:223-248  the unified directory path, or <<>> for
\* Err(IllegalDirName)
validate_dirpath(dir) ==
    IF dir = <<>> \/ dir[1] # 47 THEN <<>>
    ELSE IF \E i \in 1..Len(dir) : ~(IsAlphanumeric(dir[i]) \/ dir[i] \in {46, 95, 47})
    THEN <<>>
    ELSE LET d == IF dir[Len(dir)] = 47 THEN dir ELSE dir \o <<47>>
         IN  IF Len(d) > 1 /\ ~validate_strippted_path(SubSeq(d, 2, Len(d) - 1))
             THEN <<>> ELSE d

\* protocol/message.rs:80-108  raw::Request and RequestErr in one record
RawRequest(ty) ==
    [ty |-> ty, filename |-> <<>>, byte_count |-> 0, revision |-> NoRevision,
     path |-> <<>>, reason |-> "", method |-> <<>>]
\* protocol/message.rs:95-108  a RequestErr, with the text it displays
RequestErr(reason) == [RawRequest("Err") EXCEPT !.reason = reason]

\* protocol/message.rs:110-197  impl FromStr for raw::Request
RequestFromStr(s) ==
    LET parts == SplitAsciiWhitespace(Trim(s))
        method == IF parts = <<>> THEN <<>> ELSE ToUppercase(parts[1])
        PUT_USAGE_MSG == "usage: PUT file length newline data"
        GET_USAGE_MSG == "usage: GET file [revision]"
        LIST_USAGE_MSG == "usage: LIST dir"
        BadUsage(usage) == RequestErr(usage)
        IllegalFileName == RequestErr("illegal file name")
        IllegalDirName == RequestErr("illegal dir name")
        IllegalMethod(m) == [RequestErr("illegal method: ") EXCEPT !.method = m]
    IN  IF method = <<80, 85, 84>>                          \* "PUT"
        THEN IF Len(parts) < 2 THEN BadUsage(PUT_USAGE_MSG)
             ELSE IF ~check_filename(parts[2]) THEN IllegalFileName
             ELSE IF Len(parts) < 3 \/ ParseU64(parts[3]) = -1
             THEN BadUsage(PUT_USAGE_MSG)
             ELSE IF Len(parts) > 3 THEN BadUsage(PUT_USAGE_MSG)
             ELSE [RawRequest("Put") EXCEPT !.filename = parts[2],
                                            !.byte_count = ParseU64(parts[3])]
        ELSE IF method = <<71, 69, 84>>                     \* "GET"
        THEN IF Len(parts) < 2 THEN BadUsage(GET_USAGE_MSG)
             ELSE IF ~check_filename(parts[2]) THEN IllegalFileName
             ELSE IF Len(parts) < 3
             THEN [RawRequest("Get") EXCEPT !.filename = parts[2]]
             ELSE LET value == parts[3]
                      revision == IF value[1] = 114 THEN Tail(value) ELSE value
                  IN  IF ParseU64(revision) = -1 THEN BadUsage(GET_USAGE_MSG)
                      ELSE IF Len(parts) > 3 THEN BadUsage(GET_USAGE_MSG)
                      ELSE [RawRequest("Get") EXCEPT !.filename = parts[2],
                                                     !.revision = ParseU64(revision)]
        ELSE IF method = <<76, 73, 83, 84>>                 \* "LIST"
        THEN IF Len(parts) < 2 THEN BadUsage(LIST_USAGE_MSG)
             ELSE IF validate_dirpath(parts[2]) = <<>> THEN IllegalDirName
             ELSE IF Len(parts) > 2 THEN BadUsage(LIST_USAGE_MSG)
             ELSE [RawRequest("List") EXCEPT !.path = validate_dirpath(parts[2])]
        ELSE IF method = <<72, 69, 76, 80>>                 \* "HELP"
        THEN RawRequest("Help")
        ELSE IllegalMethod(method)

\* protocol/message.rs:27-57, 71-77  the responses, as <<status, text, argument>>:
\* ERR <reason><method>, OK usage: ..., OK r<revision>, OK <length> and the
\* file's bytes, OK <count> and one line for each child
Response(kind, argument) ==
    IF kind = "help" THEN <<"OK", "usage: HELP|GET|PUT|LIST", <<>>>>
    ELSE IF kind \in {"put", "get", "list"} THEN <<"OK", kind, argument>>
    ELSE <<"ERR", kind, argument>>

\* send_response without its last write
SendResponseOnly(output, response) == output \o <<response>>

\* protocol/connection.rs:184-267  send_response: the response, then
\* READY_MSG (protocol/connection.rs:14, 264)
send_response(output, response) == output \o <<response, <<"READY", "", <<>>>>>>

RECURSIVE StrLess(_, _)
\* str::cmp: a < b, byte by byte
StrLess(a, b) ==
    IF a = <<>> THEN b # <<>>
    ELSE IF b = <<>> THEN FALSE
    ELSE IF Head(a) = Head(b) THEN StrLess(Tail(a), Tail(b))
    ELSE Head(a) < Head(b)

RECURSIVE InOrder(_)
\* storage.rs:133, 160-164  BTreeSet::iter: the items by ascending name
InOrder(children) ==
    IF children = {} THEN <<>>
    ELSE LET first == CHOOSE i \in children :
                         \A j \in children \ {i} : StrLess(i[2], j[2])
         IN  <<first>> \o InOrder(children \ {first})

\* storage.rs:128-150  TempFileSystem::list: <<name, "DIR", 0>> for a
\* directory, <<name, "FILE", last revision>> for a file
List(fs_files, fs_dirs, dir_path) ==
    IF dir_path \notin DOMAIN fs_dirs THEN <<>>
    ELSE LET items == InOrder(fs_dirs[dir_path])
         IN  [k \in 1..Len(items) |->
                IF items[k][1] = "Dir" THEN <<items[k][2], "DIR", 0>>
                ELSE <<items[k][2], "FILE",
                       GetLastRevision(fs_files[dir_path \o items[k][2]])>>]

\* storage.rs:29-38, 109-125  TempFileSystem::get: "file" with the revision
\* found, "no such file", "no such revision", or "panic" where revision - 1
\* overflows in a build with overflow checks
Get(fs_files, name, revision, overflow_checks) ==
    IF name \notin DOMAIN fs_files \/ fs_files[name].revisions = <<>>
    THEN [result |-> "no such file", revision |-> 0]
    ELSE LET tf == fs_files[name]
             k == IF revision = NoRevision THEN GetLastRevision(tf) ELSE revision
         IN  IF k = 0
             THEN IF overflow_checks THEN [result |-> "panic", revision |-> 0]
                  ELSE [result |-> "no such revision", revision |-> 0]
             ELSE IF k > Len(tf.revisions)
             THEN [result |-> "no such revision", revision |-> 0]
             ELSE [result |-> "file", revision |-> k]

\* a connection before Connection::new
NewHandler ==
    [pc |-> "new",              \* new | line (connection.rs:151) | body (:108) | closed
     filename |-> <<>>,         \* the PUT whose body is being read
     byte_count |-> 0,
     wcount |-> 0,
     file |-> <<>>,             \* the bytes written to the temp file
     overflow_checks |-> "unknown",  \* unknown | on | off: the build's profile
     ended |-> ""]              \* why handle_connection returned

ProtoInit ==
    /\ stream = [c \in Conns |->
                   [input |-> <<>>, eof |-> FALSE, output |-> <<>>, sent |-> 0]]
    /\ handler = [c \in Conns |-> NewHandler]

\* the client writes one of the texts to its socket
ClientSend(c, text) ==
    /\ ~stream[c].eof
    /\ stream[c].sent < MaxRequests
    /\ stream' = [stream EXCEPT ![c].input = @ \o text, ![c].sent = @ + 1]
    /\ UNCHANGED <<handler, storeVars, lrcpVars, speedVars, daemonVars, codecVars, jobVars, lockVars>>

\* the client closes its socket
ClientShutdown(c) ==
    /\ ~stream[c].eof
    /\ stream' = [stream EXCEPT ![c].eof = TRUE]
    /\ UNCHANGED <<handler, storeVars, lrcpVars, speedVars, daemonVars, codecVars, jobVars, lockVars>>

\* protocol/connection.rs:39-46  Connection::new
ConnectionNew(c) ==
    /\ handler[c].pc = "new"
    /\ stream' = [stream EXCEPT ![c].output = @ \o <<<<"READY", "", <<>>>>>>]
    /\ handler' = [handler EXCEPT ![c].pc = "line"]
    /\ UNCHANGED <<storeVars, lrcpVars, speedVars, daemonVars, codecVars, jobVars, lockVars>>

\* handle_connection returns: the connection is dropped
Closed(h, why) == [h EXCEPT !.pc = "closed", !.ended = why]

\* main.rs:34-42, 55  a PUT whose body was read: insert, OK r<revision>, READY
AcceptPut(c, filename, body, rest) ==
    LET r == TempFileInsert(files[filename], body, Digest(body))
    IN  /\ files' = [files EXCEPT ![filename] = r[1]]
        /\ dirs' = DirsInsert(dirs, filename)
        /\ stream' = [stream EXCEPT ![c].input = rest,
                         ![c].output = send_response(@, Response("put", <<r[2]>>))]
        /\ handler' = [handler EXCEPT ![c] =
                          [@ EXCEPT !.pc = "line", !.filename = <<>>, !.byte_count = 0,
                                    !.wcount = 0, !.file = <<>>]]

\* main.rs:43-46, 55, protocol/connection.rs:197-226  GET: look the revision
\* up, and send the file read from its start, or the error
ServeGet(c, request, rest) ==
    \E checks \in BOOLEAN :
       /\ handler[c].overflow_checks = "on" => checks
       /\ handler[c].overflow_checks = "off" => ~checks
       /\ LET got == Get(files, request.filename, request.revision, checks)
              overflowed == /\ request.revision = 0
                            /\ got.result # "no such file"
              h == IF overflowed
                   THEN [handler[c] EXCEPT !.overflow_checks =
                                              IF checks THEN "on" ELSE "off"]
                   ELSE handler[c]
          IN  /\ IF got.result = "panic"
                 THEN /\ handler' = [handler EXCEPT ![c] = Closed(h, "panic")]
                      /\ stream' = [stream EXCEPT ![c].input = rest]
                      /\ UNCHANGED files
                 ELSE IF got.result = "file"
                 THEN LET content ==
                             files[request.filename].revisions[got.revision].content
                      IN  /\ files' = [files EXCEPT
                                ![request.filename].revisions[got.revision].cursor =
                                    Len(content)]
                          /\ stream' = [stream EXCEPT ![c].input = rest,
                                ![c].output = send_response(@, Response("get", content))]
                          /\ handler' = [handler EXCEPT ![c] = h]
                 ELSE /\ stream' = [stream EXCEPT ![c].input = rest,
                            ![c].output = send_response(@, Response(got.result, <<>>))]
                      /\ handler' = [handler EXCEPT ![c] = h]
                      /\ UNCHANGED files
       /\ UNCHANGED dirs

\* protocol/connection.rs:145-181, 72-142, main.rs:31-56  read_line returns:
\* the line is skipped, answered with an error, or parsed and served; a
\* PUT goes on to read its body
ReadLine(c) ==
    /\ handler[c].pc = "line"
    /\ LET input == stream[c].input
           newlines == {i \in 1..Len(input) : input[i] = 10}
           rcount == IF newlines = {} THEN Len(input)
                     ELSE CHOOSE i \in newlines : \A j \in newlines : i <= j
           line == SubSeq(input, 1, rcount)
           rest == SubSeq(input, rcount + 1, Len(input))
           request == RequestFromStr(line)
       IN  /\ newlines = {} => stream[c].eof
           /\ IF rcount = 0
              THEN \* reached EOF
                   /\ handler' = [handler EXCEPT ![c] = Closed(@, "eof")]
                   /\ UNCHANGED <<stream, files, dirs>>
              ELSE IF Trim(line) = <<>>
              THEN \* skip empty lines
                   /\ stream' = [stream EXCEPT ![c].input = rest]
                   /\ UNCHANGED <<handler, files, dirs>>
              ELSE IF request.ty = "Err"
              THEN /\ stream' = [stream EXCEPT ![c].input = rest,
                         ![c].output = send_response(@,
                                          Response(request.reason, request.method))]
                   /\ handler' = [handler EXCEPT ![c] =
                         IF request.reason = "illegal method: "
                         THEN Closed(@, "unknown method") ELSE @]
                   /\ UNCHANGED <<files, dirs>>
              ELSE IF request.ty = "Help"
              THEN /\ stream' = [stream EXCEPT ![c].input = rest,
                         ![c].output = send_response(@, Response("help", <<>>))]
                   /\ UNCHANGED <<handler, files, dirs>>
              ELSE IF request.ty = "List"
              THEN /\ stream' = [stream EXCEPT ![c].input = rest,
                         ![c].output = send_response(@,
                                          Response("list", List(files, dirs, request.path)))]
                   /\ UNCHANGED <<handler, files, dirs>>
              ELSE IF request.ty = "Get"
              THEN ServeGet(c, request, rest)
              ELSE IF request.byte_count = 0
              THEN AcceptPut(c, request.filename, <<>>, rest)
              ELSE /\ stream' = [stream EXCEPT ![c].input = rest]
                   /\ handler' = [handler EXCEPT ![c] =
                         [@ EXCEPT !.pc = "body", !.filename = request.filename,
                                   !.byte_count = request.byte_count,
                                   !.wcount = 0, !.file = <<>>]]
                   /\ UNCHANGED <<files, dirs>>
    /\ UNCHANGED <<clients, answered, lastPut, lrcpVars, speedVars, daemonVars,
                   codecVars, jobVars, lockVars>>

\* protocol/connection.rs:96-138  one read of the PUT's body returns rcount
\* bytes, as many as have arrived and at most the block's length
ReadBlock(c, rcount) ==
    /\ handler[c].pc = "body"
    /\ LET h == handler[c]
           remain == h.byte_count - h.wcount
           block == SubSeq(stream[c].input, 1, rcount)
           rest == SubSeq(stream[c].input, rcount + 1, Len(stream[c].input))
       IN  /\ rcount \in 1..Min(Min(BLOCK_SIZE, remain), Len(stream[c].input))
           /\ IF \E i \in 1..rcount : ~IsTextByte(block[i])
              THEN /\ stream' = [stream EXCEPT ![c].input = rest,
                         ![c].output = send_response(@,
                                          Response("text files only", <<>>))]
                   /\ handler' = [handler EXCEPT ![c] =
                         [@ EXCEPT !.pc = "line", !.filename = <<>>, !.byte_count = 0,
                                   !.wcount = 0, !.file = <<>>]]
                   /\ UNCHANGED <<files, dirs>>
              ELSE IF h.byte_count <= h.wcount + rcount
              THEN AcceptPut(c, h.filename, h.file \o block, rest)
              ELSE /\ stream' = [stream EXCEPT ![c].input = rest]
                   /\ handler' = [handler EXCEPT ![c] =
                         [@ EXCEPT !.wcount = @ + rcount, !.file = @ \o block]]
                   /\ UNCHANGED <<files, dirs>>
    /\ UNCHANGED <<clients, answered, lastPut, lrcpVars, speedVars, daemonVars,
                   codecVars, jobVars, lockVars>>

\* protocol/connection.rs:108-111, 128-131  the read of the PUT's body returns
\* 0: the connection ended before the body did, Err(ConnectionErr::Eof)
ReadBlockEof(c) ==
    /\ handler[c].pc = "body"
    /\ stream[c].input = <<>>
    /\ stream[c].eof
    /\ handler' = [handler EXCEPT ![c] = Closed(@, "eof in body")]
    /\ UNCHANGED <<stream, storeVars, lrcpVars, speedVars, daemonVars, codecVars, jobVars, lockVars>>

ProtoNext ==
    \E c \in ProtoConns :
       \/ \E text \in RequestTexts : ClientSend(c, text)
       \/ ClientShutdown(c)
       \/ ConnectionNew(c)
       \/ ReadLine(c)
       \/ \E rcount \in 1..MaxBody : ReadBlock(c, rcount)
       \/ ReadBlockEof(c)

(***************************************************************************)
(*      line-reversal: the text form of the datagrams (lrcp/message.rs)    *)
(*                                                                         *)
(* A text is a sequence of bytes; 47 is '/', 92 is '\', 97 is 'a',         *)
(* 48..57 are the digits, 43 is '+', 45 is '-'.  A u32 is the pair of its  *)
(* two 16-bit halves <<high, low>>, so that every value up to 2^32 - 1 has *)
(* a representation; <<>> stands for the Err of a conversion.              *)
(***************************************************************************)
\* the u32 of a small number
U32(n) == <<n \div 65536, n % 65536>>

RECURSIVE U32ToString(_)
\* u32::to_string: the decimal digits, most significant first
U32ToString(n) ==
    LET t == (n[1] % 10) * 65536 + n[2]
    IN  IF n[1] = 0 /\ n[2] < 10 THEN <<48 + n[2]>>
        ELSE U32ToString(<<n[1] \div 10, t \div 10>>) \o <<48 + (t % 10)>>

RECURSIVE U32Accumulate(_, _)
\* u32::from_str_radix: result = result.checked_mul(10)?.checked_add(digit)?
U32Accumulate(acc, digits) ==
    IF digits = <<>> THEN acc
    ELSE IF Head(digits) \notin 48..57 THEN <<>>
    ELSE LET t == acc[2] * 10 + (Head(digits) - 48)
             high == acc[1] * 10 + t \div 65536
         IN  IF high > 65535 THEN <<>>
             ELSE U32Accumulate(<<high, t % 65536>>, Tail(digits))

\* str::parse::<u32>: one leading '+' is accepted, the empty text and a text
\* without digits are errors
U32FromStr(s) ==
    LET digits == IF s # <<>> /\ Head(s) = 43 THEN Tail(s) ELSE s
    IN  IF digits = <<>> THEN <<>> ELSE U32Accumulate(<<0, 0>>, digits)

RECURSIVE ReplaceChar(_, _, _)
\* str::replace(ch, to) with a character as the pattern: every occurrence of
\* ch becomes to.  Each character is replaced on its own, so the text is
\* taken apart in halves (texts of MAX_DATA_SIZE characters are replaced).
ReplaceChar(s, ch, to) ==
    IF Len(s) = 0 THEN <<>>
    ELSE IF Len(s) = 1 THEN (IF s[1] = ch THEN to ELSE s)
    ELSE ReplaceChar(SubSeq(s, 1, Len(s) \div 2), ch, to)
             \o ReplaceChar(SubSeq(s, Len(s) \div 2 + 1, Len(s)), ch, to)

RECURSIVE Replace(_, _, _)
\* str::replace(from, to) with a text as the pattern: every non-overlapping
\* match of from, left to right
Replace(s, from, to) ==
    IF Len(s) < Len(from) THEN s
    ELSE IF SubSeq(s, 1, Len(from)) = from
         THEN to \o Replace(SubSeq(s, Len(from) + 1, Len(s)), from, to)
         ELSE <<Head(s)>> \o Replace(Tail(s), from, to)

RECURSIVE Join(_, _)
\* [&str]::join(sep)
Join(parts, sep) ==
    IF parts = <<>> THEN <<>>
    ELSE IF Len(parts) = 1 THEN parts[1]
    ELSE parts[1] \o <<sep>> \o Join(Tail(parts), sep)

\* message.rs:4-38  Message { session, ty }; position, length and data are
\* the fields of the variants Data and Ack
Message(ty, session, number, data) ==
    [ty |-> ty, session |-> session,
     position |-> IF ty = "Data" THEN number ELSE <<>>,
     length |-> IF ty = "Ack" THEN number ELSE <<>>,
     data |-> data]

NoMessage == Message("None", <<>>, <<>>, <<>>)

\* message.rs:59 with the two replacements in the other order
EscapeSlashFirst(data) == ReplaceChar(ReplaceChar(data, 47, <<92, 47>>), 92, <<92, 92>>)

\* message.rs:59  data.replace('\\', r"\\").replace('/', r"\/")
Escape(data) == ReplaceChar(ReplaceChar(data, 92, <<92, 92>>), 47, <<92, 47>>)

\* message.rs:40-66  impl ToString for Message
MessageToString(m) ==
    LET session == U32ToString(m.session)
        body == CASE m.ty = "Connect" -> <<99, 111, 110, 110, 101, 99, 116>> \o <<47>> \o session
                  [] m.ty = "Close" -> <<99, 108, 111, 115, 101>> \o <<47>> \o session
                  [] m.ty = "Ack" -> <<97, 99, 107>> \o <<47>> \o session \o <<47>>
                                     \o U32ToString(m.length)
                  [] m.ty = "Data" -> <<100, 97, 116, 97>> \o <<47>> \o session \o <<47>>
                                      \o U32ToString(m.position) \o <<47>> \o Escape(m.data)
    IN  <<47>> \o body \o <<47>>

RECURSIVE EscapeScan(_, _, _)
\* message.rs:150-170  the loop of unescape_data: last is the value of `last`
\* (0 for None), i the index of the character chars.next() returns next
EscapeScan(data, last, i) ==
    IF i > Len(data) THEN last \notin {92, 47}
    ELSE IF last = 92
         THEN /\ data[i] \in {47, 92}
              /\ EscapeScan(data, IF i + 1 <= Len(data) THEN data[i + 1] ELSE 0, i + 2)
    ELSE IF data[i] = 47 THEN FALSE
    ELSE EscapeScan(data, data[i], i + 1)

\* message.rs:144-173  the unescaped data, or <<-1>> for Err(BadDataFormat)
unescape_data(data) ==
    IF EscapeScan(data, IF data = <<>> THEN 0 ELSE data[1], 2)
    THEN Replace(Replace(data, <<92, 92>>, <<92>>), <<92, 47>>, <<47>>)
    ELSE <<-1>>

\* message.rs:80-142  impl FromStr for Message
MessageFromStr(s) ==
    LET Err(e) == [ok |-> FALSE, err |-> e, message |-> NoMessage]
        Ok(m) == [ok |-> TRUE, err |-> "", message |-> m]
        parts == Split(SubSeq(s, 2, Len(s) - 1), 47)
        ty == parts[1]
        session == U32FromStr(parts[2])
        number == U32FromStr(parts[3])
        data == unescape_data(Join(SubSeq(parts, 4, Len(parts)), 47))
    IN  IF Len(s) < 2 \/ s[1] # 47 \/ s[Len(s)] # 47 THEN Err("Unknown")
        ELSE IF Len(parts) < 2 THEN Err("Unknown")
        ELSE IF session = <<>> THEN Err("ParseInt")
        ELSE IF ty = <<99, 111, 110, 110, 101, 99, 116>>
             THEN IF Len(parts) > 2 THEN Err("Unknown")
                  ELSE Ok(Message("Connect", session, <<>>, <<>>))
        ELSE IF ty = <<99, 108, 111, 115, 101>>
             THEN IF Len(parts) > 2 THEN Err("Unknown")
                  ELSE Ok(Message("Close", session, <<>>, <<>>))
        ELSE IF ty = <<97, 99, 107>>
             THEN IF Len(parts) < 3 THEN Err("Unknown")
                  ELSE IF number = <<>> THEN Err("ParseInt")
                  ELSE IF Len(parts) > 3 THEN Err("Unknown")
                  ELSE Ok(Message("Ack", session, number, <<>>))
        ELSE IF ty = <<100, 97, 116, 97>>
             THEN IF Len(parts) < 3 THEN Err("Unknown")
                  ELSE IF number = <<>> THEN Err("ParseInt")
                  ELSE IF data = <<-1>> THEN Err("BadDataFormat")
                  ELSE Ok(Message("Data", session, number, data))
        ELSE Err("Unknown")

\* the characters of the model's payloads: '/', '\' and an ordinary one
Alphabet == {47, 92, 97}

\* every text over the alphabet of at most n characters
Texts(n) == UNION {[1..k -> Alphabet] : k \in 0..n}

\* connection.rs:145-146  what one read of the application's stream returns:
\* 1..MAX_DATA_SIZE bytes; the short ones and the longest of one character
Chunks ==
    (Texts(MaxPayload) \ {<<>>})
        \cup {[i \in 1..n |-> ch] : n \in {MAX_DATA_SIZE - 1, MAX_DATA_SIZE}, ch \in Alphabet}

\* session ids: the smallest, a small one and u32::MAX
CodecSessions == {U32(0), U32(7), <<65535, 65535>>}

\* the messages the server serializes
Messages ==
    {Message(ty, s, <<>>, <<>>) : ty \in {"Connect", "Close"}, s \in CodecSessions}
        \cup {Message("Ack", s, n, <<>>) : s \in CodecSessions, n \in CodecSessions}
        \cup {Message("Data", s, n, d) : s \in CodecSessions, n \in {U32(0), <<65535, 65535>>},
                                         d \in Texts(MaxPayload)}

\* numeric fields as a peer may write them: 0, 7, 007, +7, 4294967295,
\* 4294967296, 99999999999, -1, the empty text and a letter
Numerals ==
    {<<48>>, <<55>>, <<48, 48, 55>>, <<43, 55>>,
     <<52, 50, 57, 52, 57, 54, 55, 50, 57, 53>>, <<52, 50, 57, 52, 57, 54, 55, 50, 57, 54>>,
     <<57, 57, 57, 57, 57, 57, 57, 57, 57, 57, 57>>, <<45, 49>>, <<>>, <<97>>}

\* the fields of the datagrams a peer sends, before they are framed
DatagramFields ==
    {<<ty, s>> : ty \in {<<99, 111, 110, 110, 101, 99, 116>>, <<99, 108, 111, 115, 101>>, <<102, 111, 111>>},
                 s \in Numerals}
        \cup {<<<<97, 99, 107>>, s, n>> : s \in {<<55>>, <<>>}, n \in Numerals}
        \cup {<<<<97, 99, 107>>, <<55>>, <<55>>, <<55>>>>, <<<<97, 99, 107>>>>,
              <<<<100, 97, 116, 97>>, <<55>>>>, <<<<100, 97, 116, 97>>, <<55>>, <<48>>>>}
        \cup {<<<<100, 97, 116, 97>>, s, <<48>>, <<97>>>> : s \in Numerals}
        \cup {<<<<100, 97, 116, 97>>, <<55>>, n, <<97>>>> : n \in Numerals}
        \cup {<<<<100, 97, 116, 97>>, <<55>>, <<48>>, d>> : d \in Texts(MaxData)}

\* a peer's datagram: the fields between '/', framed or not
Wire(fields, framed) ==
    IF framed THEN <<47>> \o Join(fields, 47) \o <<47>> ELSE Join(fields, 47) \o <<47>>

CodecIdle ==
    [op |-> "idle", message |-> NoMessage, text |-> <<>>, fields |-> <<>>,
     framed |-> FALSE, parsed |-> [ok |-> FALSE, err |-> "", message |-> NoMessage],
     again |-> <<>>]

CodecInit == codec = CodecIdle

\* connection.rs:187-194  data_sender builds the datagram of the part of the
\* chunk that is not acknowledged yet: Message::data(session, position +
\* sent_so_far, data[sent_so_far..]).to_string()
DataSenderMessage(session, position, data, sent_so_far) ==
    /\ codec.op = "idle"
    /\ sent_so_far < Len(data)
    /\ LET m == Message("Data", session, U32(position + sent_so_far),
                        SubSeq(data, sent_so_far + 1, Len(data)))
       IN  codec' = [codec EXCEPT !.op = "data_sender", !.message = m,
                                  !.text = MessageToString(m)]
    /\ UNCHANGED <<lrcpVars, speedVars, storeVars, daemonVars, protoVars, jobVars, lockVars>>

\* listener.rs, connection.rs  the server serializes a message it sends
Serialize(m) ==
    /\ codec.op = "idle"
    /\ codec' = [codec EXCEPT !.op = "to_string", !.message = m, !.text = MessageToString(m)]
    /\ UNCHANGED <<lrcpVars, speedVars, storeVars, daemonVars, protoVars, jobVars, lockVars>>

\* the peer parses the text the server has serialized
ParseBack ==
    /\ codec.op = "to_string"
    /\ codec' = [codec EXCEPT !.op = "round_trip", !.parsed = MessageFromStr(codec.text)]
    /\ UNCHANGED <<lrcpVars, speedVars, storeVars, daemonVars, protoVars, jobVars, lockVars>>

\* listener.rs  the server parses the text of a datagram that arrives
Receive(fields, framed) ==
    /\ codec.op = "idle"
    /\ codec' = [codec EXCEPT !.op = "from_str", !.fields = fields, !.framed = framed,
                                  !.text = Wire(fields, framed),
                                  !.parsed = MessageFromStr(Wire(fields, framed))]
    /\ UNCHANGED <<lrcpVars, speedVars, storeVars, daemonVars, protoVars, jobVars, lockVars>>

\* message.rs:258-273  the message a text parsed to is serialized again
SerializeBack ==
    /\ codec.op = "from_str"
    /\ codec.parsed.ok
    /\ codec' = [codec EXCEPT !.op = "reserialized",
                                  !.again = MessageToString(codec.parsed.message)]
    /\ UNCHANGED <<lrcpVars, speedVars, storeVars, daemonVars, protoVars, jobVars, lockVars>>

CodecNext ==
    \/ \E session \in CodecSessions, position \in {0, MAX_DATA_SIZE}, data \in Chunks,
          sent_so_far \in 0..MaxPayload :
          DataSenderMessage(session, position, data, sent_so_far)
    \/ \E m \in Messages : Serialize(m)
    \/ ParseBack
    \/ \E fields \in DatagramFields, framed \in BOOLEAN : Receive(fields, framed)
    \/ SerializeBack

(***************************************************************************)
(*        speed-daemon: the road workers and the daily ticket ledger       *)
(***************************************************************************)

Roads == {1, 2}
Plates == {"UN1X"}
\* camera positions (miles) and observation times (seconds)
Cameras == {0, 100, 3000}
Timestamps == {0, 3600, 90000, 90001}
\* the limit of the camera that registered the road first (record.rs:63-70)
SpeedLimit(r) == 60

AbsDiff(a, b) == IF a < b THEN b - a ELSE a - b

\* record.rs:184, 189  (distance / (secs / 60 / 60)).round(): the quotient
\* rounded to the nearest integer, halves away from zero.  The code divides
\* in f64, where secs / 60 / 60 is inexact: for a quotient that is exactly a
\* half (3 miles in 96 s) it may round down.  No distance and time that
\* Cameras and Timestamps produce has such a quotient, so on them the f64
\* result is the one computed here.
RoundedSpeed(distance, secs) == (2 * distance * 3600 + secs) \div (2 * secs)

\* the order of (Timestamp, CameraPosition) tuples: record.rs:195-196
TupleLess(a, b) == a[1] < b[1] \/ (a[1] = b[1] /\ a[2] < b[2])
TupleMin(a, b) == IF TupleLess(b, a) THEN b ELSE a
TupleMax(a, b) == IF TupleLess(b, a) THEN a ELSE b

\* record.rs:198-206  Ticket::new(plate, road, start.1, start.0, end.1, end.0, speed)
NewTicket(plate, road, start, end, mph) ==
    [plate |-> plate, road |-> road, mile1 |-> start[2], timestamp1 |-> start[1],
     mile2 |-> end[2], timestamp2 |-> end[1], speed |-> mph]

NoTicket == NewTicket("", 0, <<0, 0>>, <<0, 0>>, 0)

\* the days a ticket covers: record.rs:208, 214
FirstDay(ticket) == ticket.timestamp1 \div DAY_IN_SECS
LastDay(ticket) == ticket.timestamp2 \div DAY_IN_SECS

\* a road worker that waits in rx.recv(): record.rs:164
IdleWorker == [started |-> TRUE, pc |-> "idle", plate |-> "", camera |-> 0,
               timestamp |-> 0, todo |-> {}, ticket |-> NoTicket, day |-> 0]

SpeedInit ==
    /\ workers = [r \in Roads |-> [IdleWorker EXCEPT !.started = FALSE]]
    /\ records = [r \in Roads |-> [p \in Plates |-> {}]]
    /\ ticket_records = {}
    /\ tickets = <<>>
    /\ reports = 0

\* record.rs:62-71  register_camera: the first camera of a road starts its worker
RegisterCamera(r) ==
    /\ ~workers[r].started
    /\ workers' = [workers EXCEPT ![r] = IdleWorker]
    /\ UNCHANGED <<records, ticket_records, tickets, reports, lrcpVars, storeVars, daemonVars, protoVars, codecVars, jobVars, lockVars>>

\* record.rs:164-167, 176-182  the worker takes a plate report: the record is
\* inserted (one timestamp per camera) and the loop over the plate's records starts
Record(r, plate, camera, timestamp) ==
    /\ workers[r].started
    /\ workers[r].pc = "idle"
    /\ reports < MaxReports
    /\ LET entries == {e \in records[r][plate] : e[1] # camera}
                         \cup {<<camera, timestamp>>}
       IN  /\ records' = [records EXCEPT ![r][plate] = entries]
           /\ workers' = [workers EXCEPT ![r] =
                 [IdleWorker EXCEPT !.pc = "loop", !.plate = plate, !.camera = camera,
                                    !.timestamp = timestamp, !.todo = entries]]
    /\ reports' = reports + 1
    /\ UNCHANGED <<ticket_records, tickets, lrcpVars, storeVars, daemonVars, protoVars, codecVars, jobVars, lockVars>>

\* record.rs:182-206  one iteration of 'record_loop up to the check of the
\* days; a HashMap iterates in no particular order
NextEntry(r) ==
    /\ workers[r].pc = "loop"
    /\ \E e \in workers[r].todo :
          LET w == [workers[r] EXCEPT !.todo = @ \ {e}]
              distance == AbsDiff(e[1], w.camera)
              secs == AbsDiff(e[2], w.timestamp)
              mph == RoundedSpeed(distance, secs)
              start == TupleMin(<<w.timestamp, w.camera>>, <<e[2], e[1]>>)
              end == TupleMax(<<w.timestamp, w.camera>>, <<e[2], e[1]>>)
              ticket == NewTicket(w.plate, r, start, end, mph)
          IN  workers' = [workers EXCEPT ![r] =
                 IF secs = 0 \/ distance = 0
                 THEN w
                 ELSE IF mph > U16_MAX
                 THEN IdleWorker
                 ELSE IF mph > SpeedLimit(r)
                 THEN [w EXCEPT !.pc = "check", !.ticket = ticket,
                                !.day = FirstDay(ticket)]
                 ELSE w]
    /\ UNCHANGED <<records, ticket_records, tickets, reports, lrcpVars, storeVars, daemonVars, protoVars, codecVars, jobVars, lockVars>>

\* record.rs:182, 220-221  the loop over the records is over
RecordDone(r) ==
    /\ workers[r].pc = "loop"
    /\ workers[r].todo = {}
    /\ workers' = [workers EXCEPT ![r] = IdleWorker]
    /\ UNCHANGED <<records, ticket_records, tickets, reports, lrcpVars, storeVars, daemonVars, protoVars, codecVars, jobVars, lockVars>>

\* record.rs:208-212  one ticket_records.get of the first loop over the days
CheckDay(r) ==
    /\ workers[r].pc = "check"
    /\ workers' = [workers EXCEPT ![r] =
          IF <<workers[r].plate, workers[r].day>> \in ticket_records
          THEN \* continue 'record_loop
               [@ EXCEPT !.pc = "loop", !.ticket = NoTicket, !.day = 0]
          ELSE IF workers[r].day = LastDay(workers[r].ticket)
          THEN [@ EXCEPT !.pc = "insert", !.day = FirstDay(workers[r].ticket)]
          ELSE [@ EXCEPT !.day = @ + 1]]
    /\ UNCHANGED <<records, ticket_records, tickets, reports, lrcpVars, storeVars, daemonVars, protoVars, codecVars, jobVars, lockVars>>

\* record.rs:214-216  one ticket_records.insert of the second loop over the days
InsertDay(r) ==
    /\ workers[r].pc = "insert"
    /\ ticket_records' = ticket_records \cup {<<workers[r].plate, workers[r].day>>}
    /\ workers' = [workers EXCEPT ![r] =
          IF workers[r].day = LastDay(workers[r].ticket)
          THEN [@ EXCEPT !.pc = "submit", !.day = 0]
          ELSE [@ EXCEPT !.day = @ + 1]]
    /\ UNCHANGED <<records, tickets, reports, lrcpVars, storeVars, daemonVars, protoVars, codecVars, jobVars, lockVars>>

\* record.rs:218  submit_ticket: the ticket goes to the ticket system
SubmitTicket(r) ==
    /\ workers[r].pc = "submit"
    /\ tickets' = Append(tickets, workers[r].ticket)
    /\ workers' = [workers EXCEPT ![r] = [@ EXCEPT !.pc = "loop", !.ticket = NoTicket]]
    /\ UNCHANGED <<records, ticket_records, reports, lrcpVars, storeVars, daemonVars, protoVars, codecVars, jobVars, lockVars>>

SpeedNext ==
    \E r \in Roads :
       \/ RegisterCamera(r)
       \/ \E plate \in Plates, camera \in Cameras, timestamp \in Timestamps :
             Record(r, plate, camera, timestamp)
       \/ NextEntry(r)
       \/ RecordDone(r)
       \/ CheckDay(r)
       \/ InsertDay(r)
       \/ SubmitTicket(r)

(***************************************************************************)
(* speed-daemon: the ticket system (systems/ticket.rs) and the client      *)
(* connections (client.rs).  Every .await of a task is one action; a       *)
(* send().await on a full bounded channel is an action that is not         *)
(* enabled.                                                                *)
(***************************************************************************)

Clients == {1, 2}
\* the road lists of IAmDispatcher messages
RoadLists == {<<1>>, <<2>>, <<1, 2>>}
\* the rounded speeds of the tickets the road workers issue (u16)
Speeds == {100, 656}

\* ticket.rs:27-46  Ticket::new; id is the position in the order of issue
IssuedTicket(id, road, mph) == [id |-> id, road |-> road, speed |-> mph]

\* message.rs:62  speed * SPEED_FACTOR, a multiplication of two u16
Overflows(mph) == mph * SPEED_FACTOR > U16_MAX
WireSpeed(mph) == (mph * SPEED_FACTOR) % (U16_MAX + 1)

\* ticket.rs:49-59, message.rs:49-65  From<Ticket> for ToClient
TicketToClient(ticket) ==
    [ty |-> "Ticket", id |-> ticket.id, road |-> ticket.road,
     speed |-> WireSpeed(ticket.speed)]
\* message.rs:43-47, 67-71
ErrorToClient == [ty |-> "Error", id |-> 0, road |-> 0, speed |-> 0]
HeartbeatToClient == [ty |-> "Heartbeat", id |-> 0, road |-> 0, speed |-> 0]

\* ticket.rs:62-65  InternalMessage
SubmitTicketMsg(ticket) ==
    [ty |-> "SubmitTicket", ticket |-> ticket, roads |-> <<>>, drx |-> 0]
RegisterDispatcherMsg(roads, c) ==
    [ty |-> "RegisterDispatcher", ticket |-> IssuedTicket(0, 0, 0),
     roads |-> roads, drx |-> c]

\* client.rs:27-48  a connection whose three futures have just been created
NewConn ==
    [mode |-> "Unregistered",     \* client.rs:81-85, 94
     from_client |-> "running",   \* client.rs:88-175: running | returned | panicked
     writer |-> "running",        \* client.rs:50-62: running | returned
     heartbeat |-> "waiting",     \* client.rs:64-79: waiting | ticking | pending | returned
     set_heartbeat |-> TRUE,      \* client.rs:92  the Option holds the oneshot sender
     hb |-> -1,                   \* the interval of the WantHeartbeat accepted (-1: none)
     hb_start |-> 0,              \* the time it was accepted
     due |-> 0,                   \* client.rs:74-76  the deadline of the next tick
     hb_sent |-> <<>>,            \* the times the Heartbeats were sent
     road |-> 0,                  \* client.rs:131  CameraHandler.road
     mile |-> 0,                  \* client.rs:131  Mode::Camera(mile, _)
     closed |-> FALSE,            \* client.rs:47  handle returned, the socket is closed
     last |-> "none",             \* client.rs:112  the kind of the message handled last
     connected |-> TRUE,          \* the peer has not closed the connection
     reading |-> TRUE]            \* the peer takes what the server writes

\* ticket.rs:81-86  the ticket system's task waiting in rx.recv()
TsysRecvState ==
    [pc |-> "recv", roads |-> <<>>, drx |-> 0, queue |-> <<>>,
     ticket |-> IssuedTicket(0, 0, 0), idx |-> 0, overflow_checks |-> "unknown"]

TicketInit ==
    /\ ticket_queue = <<>>
    /\ ticket_log = <<>>
    /\ dispatchers = [r \in Roads |-> <<>>]
    /\ pending_tickets = [r \in Roads |-> <<>>]
    /\ tsys = TsysRecvState
    /\ conns = [c \in Clients |-> NewConn]
    /\ to_client = [c \in Clients |-> <<>>]
    /\ written = [c \in Clients |-> <<>>]
    /\ now = 0
    /\ record_log = <<>>

\* the receiver of a connection's to_client channel lives as long as
\* managed_writer does: client.rs:33, 50-62
RxOpen(c) == conns[c].writer = "running"

\* the ticket system's channel has a receiver while its task lives: ticket.rs:85-94
TsysAlive == tsys.pc # "panicked"

\* the multiplication of message.rs:62 overflows: a build with overflow
\* checks panics, one without wraps around; which one the binary is shows at
\* the first overflow and stays
OverflowChecks(mph) ==
    IF ~Overflows(mph) THEN {tsys.overflow_checks}
    ELSE IF tsys.overflow_checks = "unknown" THEN {"on", "off"}
    ELSE {tsys.overflow_checks}

\* the task of ticket.rs:85-94 panics: its state, the receiver of its channel
\* and the DispatcherSenders it holds are dropped
TsysPanic ==
    /\ tsys' = [TsysRecvState EXCEPT !.pc = "panicked", !.overflow_checks = "on"]
    /\ ticket_queue' = <<>>
    /\ dispatchers' = [r \in Roads |-> <<>>]
    /\ pending_tickets' = [r \in Roads |-> <<>>]
    /\ UNCHANGED to_client

\* record.rs:218, ticket.rs:143-148  a road worker hands a ticket to the
\* ticket system: Handler::submit_ticket, send().await on the bounded channel
IssueTicket(road, mph) ==
    /\ TsysAlive
    /\ Len(ticket_queue) < TicketBufferSize
    /\ Len(SelectSeq(ticket_log, LAMBDA m : m.ty = "SubmitTicket")) < MaxTickets
    /\ LET id == Len(SelectSeq(ticket_log, LAMBDA m : m.ty = "SubmitTicket")) + 1
           msg == SubmitTicketMsg(IssuedTicket(id, road, mph))
       IN  /\ ticket_queue' = Append(ticket_queue, msg)
           /\ ticket_log' = Append(ticket_log, msg)
    /\ UNCHANGED <<dispatchers, pending_tickets, tsys, conns, to_client, written,
                   now, record_log, lrcpVars, speedVars, storeVars, protoVars, codecVars, jobVars, lockVars>>

\* ticket.rs:86-92, 101-103  the task takes the next message; a
\* RegisterDispatcher pushes the sender onto the list of each of its roads
TsysRecv ==
    /\ tsys.pc = "recv"
    /\ ticket_queue # <<>>
    /\ LET msg == Head(ticket_queue)
       IN  /\ ticket_queue' = Tail(ticket_queue)
           /\ IF msg.ty = "RegisterDispatcher"
              THEN /\ dispatchers' =
                        [r \in Roads |->
                           dispatchers[r] \o
                           [i \in 1..Len(SelectSeq(msg.roads, LAMBDA x : x = r))
                               |-> msg.drx]]
                   /\ tsys' = [tsys EXCEPT !.pc = "register", !.roads = msg.roads,
                                           !.drx = msg.drx]
              ELSE /\ tsys' = [tsys EXCEPT !.pc = "submit", !.ticket = msg.ticket,
                                           !.idx = 1]
                   /\ UNCHANGED dispatchers
    /\ UNCHANGED <<ticket_log, pending_tickets, conns, to_client, written,
                   now, record_log, lrcpVars, speedVars, storeVars, protoVars, codecVars, jobVars, lockVars>>

\* ticket.rs:106-107, 116-117  the next road of register_dispatcher's second
\* loop: its pending tickets are removed from the map; after the last road
\* the task is back in rx.recv()
TsysRegisterRoad ==
    /\ tsys.pc = "register"
    /\ tsys.queue = <<>>
    /\ IF tsys.roads = <<>>
       THEN /\ tsys' = [tsys EXCEPT !.pc = "recv", !.drx = 0]
            /\ UNCHANGED pending_tickets
       ELSE /\ tsys' = [tsys EXCEPT !.roads = Tail(@),
                                    !.queue = pending_tickets[Head(tsys.roads)]]
            /\ pending_tickets' = [pending_tickets EXCEPT ![Head(tsys.roads)] = <<>>]
    /\ UNCHANGED <<ticket_queue, ticket_log, dispatchers, conns, to_client,
                   written, now, record_log, lrcpVars, speedVars, storeVars, protoVars, codecVars, jobVars, lockVars>>

\* ticket.rs:108-114  drx.send(ticket.into()).await for the next removed
\* ticket; a failed send returns and drops the tickets not yet sent
TsysRegisterSend ==
    /\ tsys.pc = "register"
    /\ tsys.queue # <<>>
    /\ LET ticket == Head(tsys.queue)
           c == tsys.drx
       IN  \E oc \in OverflowChecks(ticket.speed) :
              IF Overflows(ticket.speed) /\ oc = "on"
              THEN TsysPanic
              ELSE /\ IF ~RxOpen(c)
                      THEN /\ tsys' = [tsys EXCEPT !.pc = "recv", !.roads = <<>>,
                                          !.drx = 0, !.queue = <<>>,
                                          !.overflow_checks = oc]
                           /\ UNCHANGED to_client
                      ELSE /\ Len(to_client[c]) < ToClientBufferSize
                           /\ to_client' = [to_client EXCEPT
                                               ![c] = Append(@, TicketToClient(ticket))]
                           /\ tsys' = [tsys EXCEPT !.queue = Tail(@),
                                                   !.overflow_checks = oc]
                   /\ UNCHANGED <<ticket_queue, dispatchers, pending_tickets>>
    /\ UNCHANGED <<ticket_log, conns, written, now, record_log, lrcpVars, speedVars, storeVars, protoVars, codecVars, jobVars, lockVars>>

\* ticket.rs:119-134  submit_ticket: one dispatcher.send(...).await of the
\* loop over the road's dispatchers, or the push onto the pending queue
TsysSubmitSend ==
    /\ tsys.pc = "submit"
    /\ LET ticket == tsys.ticket
           ds == dispatchers[ticket.road]
       IN  IF tsys.idx > Len(ds)
           THEN /\ pending_tickets' = [pending_tickets EXCEPT
                                          ![ticket.road] = Append(@, ticket)]
                /\ tsys' = [tsys EXCEPT !.pc = "recv", !.idx = 0,
                                        !.ticket = IssuedTicket(0, 0, 0)]
                /\ UNCHANGED <<ticket_queue, dispatchers, to_client>>
           ELSE \E oc \in OverflowChecks(ticket.speed) :
                   IF Overflows(ticket.speed) /\ oc = "on"
                   THEN TsysPanic
                   ELSE /\ IF ~RxOpen(ds[tsys.idx])
                           THEN /\ tsys' = [tsys EXCEPT !.idx = @ + 1,
                                                        !.overflow_checks = oc]
                                /\ UNCHANGED to_client
                           ELSE /\ Len(to_client[ds[tsys.idx]]) < ToClientBufferSize
                                /\ to_client' = [to_client EXCEPT ![ds[tsys.idx]] =
                                                    Append(@, TicketToClient(ticket))]
                                /\ tsys' = [tsys EXCEPT !.pc = "recv", !.idx = 0,
                                               !.ticket = IssuedTicket(0, 0, 0),
                                               !.overflow_checks = oc]
                        /\ UNCHANGED <<ticket_queue, dispatchers, pending_tickets>>
    /\ UNCHANGED <<ticket_log, conns, written, now, record_log, lrcpVars, speedVars, storeVars, protoVars, codecVars, jobVars, lockVars>>

\* the intervals of WantHeartbeat messages, in deciseconds (message.rs:16)
Intervals == {0, 1, 2}
\* the mile of IAmCamera and the timestamps of Plate messages (message.rs:15, 17)
CameraMiles == {100}
PlateTimes == {0, 3600}

\* the interval taken as seconds
HeartbeatPeriodSeconds(interval) == interval * 1000

\* client.rs:116, 69  (interval as f64) / 10f64 seconds, as a Duration; the
\* clock of the model counts milliseconds
HeartbeatPeriod(interval) == (interval * 1000) \div 10

\* the senders of connection c's to_client channel that are alive: the one
\* of from_client (client.rs:39), the clone of heartbeat (client.rs:37) and
\* the clones the ticket system holds (client.rs:146, ticket.rs:102)
Senders(c) ==
    (IF conns[c].from_client = "running" THEN {"from_client"} ELSE {})
    \cup (IF conns[c].heartbeat # "returned" THEN {"heartbeat"} ELSE {})
    \cup (IF \/ \E r \in Roads : \E i \in 1..Len(dispatchers[r]) : dispatchers[r][i] = c
             \/ \E i \in 1..Len(ticket_queue) : ticket_queue[i].drx = c
             \/ tsys.drx = c
          THEN {"ticket system"} ELSE {})

\* client.rs:96-110  from_client returns: its to_client sender is dropped, and
\* so is set_heartbeat if it is still there, which wakes heartbeat's rx.await
\* with Err and sends it into pending() (client.rs:68-72)
FromClientReturns(cn) ==
    [cn EXCEPT !.from_client = "returned",
               !.set_heartbeat = FALSE,
               !.heartbeat = IF cn.set_heartbeat THEN "pending" ELSE @]

\* client.rs:106-108, 119-125, 133-139, 150-157, 164-170
\* to_client.send(ToClient::error(..)).await?; return Ok(())
ErrorAndReturn(c, kind) ==
    /\ IF RxOpen(c)
       THEN /\ Len(to_client[c]) < ToClientBufferSize
            /\ to_client' = [to_client EXCEPT ![c] = Append(@, ErrorToClient)]
       ELSE UNCHANGED to_client
    /\ conns' = [conns EXCEPT ![c] = [FromClientReturns(@) EXCEPT !.last = kind]]

\* client.rs:142-159  FromClient::IAmDispatcher
IAmDispatcher(c, roads) ==
    /\ conns[c].from_client = "running"
    /\ conns[c].connected
    /\ IF conns[c].mode = "Unregistered"
       THEN \* ticket.rs:150-162  Handler::register_dispatcher
            IF TsysAlive
            THEN /\ Len(ticket_queue) < TicketBufferSize
                 /\ ticket_queue' = Append(ticket_queue, RegisterDispatcherMsg(roads, c))
                 /\ ticket_log' = Append(ticket_log, RegisterDispatcherMsg(roads, c))
                 /\ conns' = [conns EXCEPT ![c].last = "IAmDispatcher",
                                           ![c].mode = "Dispatcher"]
                 /\ UNCHANGED to_client
            ELSE \* .expect(...) on the closed channel panics: the panic leaves
                 \* join! and ends the connection's task with all its futures
                 /\ conns' = [conns EXCEPT ![c].last = "IAmDispatcher",
                                           ![c].from_client = "panicked",
                                           ![c].set_heartbeat = FALSE,
                                           ![c].heartbeat = "returned",
                                           ![c].writer = "returned",
                                           ![c].closed = TRUE]
                 /\ to_client' = [to_client EXCEPT ![c] = <<>>]
                 /\ UNCHANGED <<ticket_queue, ticket_log>>
       ELSE \* client.rs:150-157  Error, return
            /\ ErrorAndReturn(c, "IAmDispatcher")
            /\ UNCHANGED <<ticket_queue, ticket_log>>
    /\ UNCHANGED <<dispatchers, pending_tickets, tsys, written,
                   now, record_log, lrcpVars, speedVars, storeVars, protoVars, codecVars, jobVars, lockVars>>

\* client.rs:55-61  managed_writer takes a message off the channel and
\* writes it; the write fails once the peer has closed.  recv() gives None
\* when the channel is empty and has no sender left.  The returning future
\* drops the receiver with what the channel holds
ManagedWriter(c) ==
    /\ conns[c].writer = "running"
    /\ IF to_client[c] # <<>>
       THEN IF conns[c].connected
            THEN /\ conns[c].reading
                 /\ written' = [written EXCEPT ![c] = Append(@, Head(to_client[c]))]
                 /\ to_client' = [to_client EXCEPT ![c] = Tail(@)]
                 /\ UNCHANGED conns
            ELSE /\ conns' = [conns EXCEPT ![c].writer = "returned"]
                 /\ to_client' = [to_client EXCEPT ![c] = <<>>]
                 /\ UNCHANGED written
       ELSE /\ Senders(c) = {}
            /\ conns' = [conns EXCEPT ![c].writer = "returned"]
            /\ UNCHANGED <<to_client, written>>
    /\ UNCHANGED <<ticket_queue, ticket_log, dispatchers, pending_tickets, tsys,
                   now, record_log, lrcpVars, speedVars, storeVars, protoVars, codecVars, jobVars, lockVars>>

\* the peer keeps the connection but stops taking what the server writes
StopReading(c) ==
    /\ conns[c].connected
    /\ conns[c].reading
    /\ conns' = [conns EXCEPT ![c].reading = FALSE]
    /\ UNCHANGED <<ticket_queue, ticket_log, dispatchers, pending_tickets, tsys,
                   to_client, written, now, record_log, lrcpVars, speedVars, storeVars, protoVars, codecVars, jobVars, lockVars>>

\* client.rs:98-102  the peer closes the connection: deserialize fails with
\* DeserializeError::Io and from_client returns
Disconnect(c) ==
    /\ conns[c].connected
    /\ conns' = [conns EXCEPT ![c] =
          IF @.from_client = "running"
          THEN [FromClientReturns(@) EXCEPT !.connected = FALSE]
          ELSE [@ EXCEPT !.connected = FALSE]]
    /\ UNCHANGED <<ticket_queue, ticket_log, dispatchers, pending_tickets, tsys,
                   to_client, written, now, record_log, lrcpVars, speedVars, storeVars, protoVars, codecVars, jobVars, lockVars>>

\* WantHeartbeat that keeps set_heartbeat when the interval is 0
WantHeartbeatZeroUnset(c, interval) ==
    /\ conns[c].from_client = "running"
    /\ conns[c].connected
    /\ IF conns[c].set_heartbeat
       THEN /\ conns' = [conns EXCEPT ![c].last = "WantHeartbeat",
                  ![c].set_heartbeat = (interval = 0),
                  ![c].hb = interval,
                  ![c].heartbeat = IF interval > 0 THEN "ticking" ELSE @,
                  ![c].hb_start = now,
                  ![c].due = now]
            /\ UNCHANGED to_client
       ELSE ErrorAndReturn(c, "WantHeartbeat")
    /\ UNCHANGED <<ticket_queue, ticket_log, dispatchers, pending_tickets, tsys, written,
                   now, record_log, lrcpVars, speedVars, storeVars, protoVars, codecVars, jobVars, lockVars>>

\* client.rs:113-127  FromClient::WantHeartbeat; with an interval of 0 the
\* oneshot sender is dropped unused, which heartbeat takes as "no heartbeats"
WantHeartbeat(c, interval) ==
    /\ conns[c].from_client = "running"
    /\ conns[c].connected
    /\ IF conns[c].set_heartbeat
       THEN /\ conns' = [conns EXCEPT ![c].last = "WantHeartbeat",
                  ![c].set_heartbeat = FALSE,
                  ![c].hb = interval,
                  ![c].heartbeat = IF interval > 0 THEN "ticking" ELSE "pending",
                  ![c].hb_start = now,
                  ![c].due = now]
            /\ UNCHANGED to_client
       ELSE ErrorAndReturn(c, "WantHeartbeat")
    /\ UNCHANGED <<ticket_queue, ticket_log, dispatchers, pending_tickets, tsys, written,
                   now, record_log, lrcpVars, speedVars, storeVars, protoVars, codecVars, jobVars, lockVars>>

\* IAmCamera that registers whatever the mode is
IAmCameraAnyMode(c, road, mile) ==
    /\ conns[c].from_client = "running"
    /\ conns[c].connected
    /\ record_log' = Append(record_log, <<"RegisterCamera", c, road, SpeedLimit(road)>>)
    /\ conns' = [conns EXCEPT ![c].last = "IAmCamera", ![c].mode = "Camera",
                              ![c].road = road, ![c].mile = mile]
    /\ UNCHANGED to_client
    /\ UNCHANGED <<ticket_queue, ticket_log, dispatchers, pending_tickets, tsys, written,
                   now, lrcpVars, speedVars, storeVars, protoVars, codecVars, jobVars, lockVars>>

\* client.rs:128-141  FromClient::IAmCamera; record.rs:99-110 register_camera
IAmCamera(c, road, mile) ==
    /\ conns[c].from_client = "running"
    /\ conns[c].connected
    /\ IF conns[c].mode = "Unregistered"
       THEN /\ record_log' =
                  Append(record_log, <<"RegisterCamera", c, road, SpeedLimit(road)>>)
            /\ conns' = [conns EXCEPT ![c].last = "IAmCamera", ![c].mode = "Camera",
                                      ![c].road = road, ![c].mile = mile]
            /\ UNCHANGED to_client
       ELSE /\ ErrorAndReturn(c, "IAmCamera")
            /\ UNCHANGED record_log
    /\ UNCHANGED <<ticket_queue, ticket_log, dispatchers, pending_tickets, tsys, written,
                   now, lrcpVars, speedVars, storeVars, protoVars, codecVars, jobVars, lockVars>>

\* client.rs:160-172  FromClient::Plate; record.rs:118-131 submit_record
Plate(c, plate, timestamp) ==
    /\ conns[c].from_client = "running"
    /\ conns[c].connected
    /\ IF conns[c].mode = "Camera"
       THEN /\ Len(record_log) < MaxPlates + 1
            /\ record_log' =
                  Append(record_log, <<"SubmitRecord", c, conns[c].road, conns[c].mile,
                                       plate, timestamp>>)
            /\ conns' = [conns EXCEPT ![c].last = "Plate"]
            /\ UNCHANGED to_client
       ELSE /\ ErrorAndReturn(c, "Plate")
            /\ UNCHANGED record_log
    /\ UNCHANGED <<ticket_queue, ticket_log, dispatchers, pending_tickets, tsys, written,
                   now, lrcpVars, speedVars, storeVars, protoVars, codecVars, jobVars, lockVars>>

\* client.rs:98-109, deserializer.rs:57, 89  a message of unknown type or with
\* a string that is not UTF-8
BadMessage(c) ==
    /\ conns[c].from_client = "running"
    /\ conns[c].connected
    /\ ErrorAndReturn(c, "Bad")
    /\ UNCHANGED <<ticket_queue, ticket_log, dispatchers, pending_tickets, tsys, written,
                   now, record_log, lrcpVars, speedVars, storeVars, protoVars, codecVars, jobVars, lockVars>>

\* client.rs:74-78  interval.tick().await completes (the first tick at once)
\* and the Heartbeat is sent; a send on the closed channel ends the future
HeartbeatTick(c) ==
    /\ conns[c].heartbeat = "ticking"
    /\ conns[c].due <= now
    /\ IF RxOpen(c)
       THEN /\ Len(to_client[c]) < ToClientBufferSize
            /\ to_client' = [to_client EXCEPT ![c] = Append(@, HeartbeatToClient)]
            /\ conns' = [conns EXCEPT
                  ![c].due = @ + HeartbeatPeriod(conns[c].hb),
                  ![c].hb_sent = Append(@, now)]
       ELSE /\ conns' = [conns EXCEPT ![c].heartbeat = "returned"]
            /\ UNCHANGED to_client
    /\ UNCHANGED <<ticket_queue, ticket_log, dispatchers, pending_tickets, tsys, written,
                   now, record_log, lrcpVars, speedVars, storeVars, protoVars, codecVars, jobVars, lockVars>>

\* client.rs:44-47  join! has the results of all three futures: handle
\* returns and the TcpStream is dropped, which closes the connection
HandleReturns(c) ==
    /\ ~conns[c].closed
    /\ conns[c].from_client = "returned"
    /\ conns[c].heartbeat = "returned"
    /\ conns[c].writer = "returned"
    /\ conns' = [conns EXCEPT ![c].closed = TRUE]
    /\ UNCHANGED <<ticket_queue, ticket_log, dispatchers, pending_tickets, tsys,
                   to_client, written, now, record_log, lrcpVars, speedVars, storeVars, protoVars, codecVars, jobVars, lockVars>>

\* a step of a task that the runtime takes without waiting for a timer
Immediate(c) ==
    \/ /\ conns[c].heartbeat = "ticking"
       /\ conns[c].due <= now
       /\ ~RxOpen(c) \/ Len(to_client[c]) < ToClientBufferSize
    \/ /\ conns[c].writer = "running"
       /\ \/ to_client[c] # <<>> /\ (~conns[c].connected \/ conns[c].reading)
          \/ to_client[c] = <<>> /\ Senders(c) = {}

\* 100 ms pass, once the tasks have done what was due
Tick ==
    /\ now + 100 <= MaxTime
    /\ \A c \in Clients : ~Immediate(c)
    /\ now' = now + 100
    /\ UNCHANGED <<ticket_queue, ticket_log, dispatchers, pending_tickets, tsys, conns,
                   to_client, written, record_log, lrcpVars, speedVars, storeVars, protoVars, codecVars, jobVars, lockVars>>

\* the connection whose peer may stop reading
Stalling == {1}
\* a dispatcher in charge of one road
OwnRoad(c) == <<c>>

\* one connection and the messages its peer may send
ClientNext ==
    \/ \E c \in Stalling : BadMessage(c)
    \/ \E c \in Stalling, interval \in Intervals : WantHeartbeat(c, interval)
    \/ \E c \in Stalling, road \in Roads, mile \in CameraMiles : IAmCamera(c, road, mile)
    \/ \E c \in Stalling, roads \in RoadLists : IAmDispatcher(c, roads)
    \/ \E c \in Stalling, plate \in Plates, timestamp \in PlateTimes :
          Plate(c, plate, timestamp)
    \/ \E c \in Stalling : HeartbeatTick(c)
    \/ \E c \in Stalling : ManagedWriter(c)
    \/ \E c \in Stalling : HandleReturns(c)
    \/ \E c \in Stalling : StopReading(c)
    \/ \E c \in Stalling : Disconnect(c)
    \/ Tick

\* the runtime polls every future of the join! that can make progress
\* (client.rs:44)
ClientLiveFairness ==
    \A c \in Clients :
       /\ WF_vars(HeartbeatTick(c))
       /\ WF_vars(ManagedWriter(c))
       /\ WF_vars(HandleReturns(c))

\* the ticket system with one dispatcher connection
TicketNext ==
    \/ \E road \in Roads, mph \in Speeds : IssueTicket(road, mph)
    \/ TsysRecv
    \/ TsysRegisterRoad
    \/ TsysRegisterSend
    \/ TsysSubmitSend
    \/ \E c \in Stalling, roads \in RoadLists : IAmDispatcher(c, roads)
    \/ \E c \in Stalling : ManagedWriter(c)
    \/ \E c \in Stalling : StopReading(c)
    \/ \E c \in Stalling : Disconnect(c)

\* the tickets issued under RouteNext
MaxRouted == 2

\* the ticket system with two dispatcher connections, each registering for
\* one road and closing at any time, and tickets for road 1
IssueRouted(mph) ==
    /\ Len(SelectSeq(ticket_log, LAMBDA m : m.ty = "SubmitTicket")) < MaxRouted
    /\ IssueTicket(1, mph)

RouteNext ==
    \/ \E mph \in Speeds : IssueRouted(mph)
    \/ TsysRecv
    \/ TsysRegisterRoad
    \/ TsysRegisterSend
    \/ TsysSubmitSend
    \/ \E c \in Clients, roads \in {<<1>>, <<2>>} : IAmDispatcher(c, roads)
    \/ \E c \in Clients : ManagedWriter(c)
    \/ \E c \in Clients : Disconnect(c)

\* the ticket system with one dispatcher connection per road and tickets
\* whose speed fits the wire format
TicketLiveNext ==
    \/ \E road \in Roads : IssueTicket(road, 100)
    \/ TsysRecv
    \/ TsysRegisterRoad
    \/ TsysRegisterSend
    \/ TsysSubmitSend
    \/ \E c \in Clients : IAmDispatcher(c, OwnRoad(c))
    \/ \E c \in Clients : ManagedWriter(c)
    \/ \E c \in Stalling : StopReading(c)

\* the runtime polls every task that can make progress: the ticket system's
\* task (ticket.rs:85) and each connection's managed_writer (client.rs:44)
TicketLiveFairness ==
    /\ WF_vars(TsysRecv)
    /\ WF_vars(TsysRegisterRoad)
    /\ WF_vars(TsysRegisterSend)
    /\ WF_vars(TsysSubmitSend)
    /\ \A c \in Clients : WF_vars(ManagedWriter(c))

(***************************************************************************)
(*          job-centre: the job manager (jobs.rs) and its clients          *)
(*                                                                         *)
(* An Option is a sequence of at most one element: <<>> is None, <<x>> is  *)
(* Some(x).  Every request is handled under the manager's lock (client.rs  *)
(* 42-66), so each call of the manager is one step.                        *)
(***************************************************************************)
JobClients == {1, 2}
QueueNames == {"q1", "q2"}
Priorities == {1, 2}

\* the lists of queues of a GET request
QueueLists == {<<>>} \cup {<<q>> : q \in QueueNames}
                 \cup {qs \in QueueNames \X QueueNames : qs[1] # qs[2]}

\* jobs.rs:14-21  Job (without its JSON body)
Job(id, queue, priority, owner) ==
    [id |-> id, queue |-> queue, priority |-> priority, owner |-> owner]

\* jobs.rs:40-46  QueueStab::Jobs(set) and QueueStab::Clients(list)
QueueJobs(set) == [kind |-> "Jobs", set |-> set, list |-> <<>>]
QueueClients(list) == [kind |-> "Clients", set |-> {}, list |-> list]

\* client.rs:22-29  Client::new
NewClient == [jobs |-> {}, pc |-> "idle", rx |-> 0]

\* main.rs:24, jobs.rs:48  Manager::default() and the clients of the accepted
\* connections
JobInit ==
    /\ jobs = <<>>
    /\ new_job_id = 0
    /\ queues = <<>>
    /\ channels = <<>>
    /\ job_clients = [c \in JobClients |-> NewClient]
    /\ returned = <<>>
    /\ abort_result = <<>>

\* HashMap::insert and HashMap::remove
MapInsert(map, key, value) ==
    [k \in DOMAIN map \cup {key} |-> IF k = key THEN value ELSE map[k]]
MapRemove(map, key) == [k \in DOMAIN map \ {key} |-> map[k]]

\* BTreeSet::first on a set of (priority, job id)
SetFirst(set) ==
    CHOOSE e \in set : \A o \in set : o = e \/ TupleLess(e, o)

\* jobs.rs:102  BTreeSet::last on a set of (priority, job id)
SetLast(set) ==
    CHOOSE e \in set : \A o \in set : o = e \/ TupleLess(o, e)

RECURSIVE BestJob(_, _, _)
\* jobs.rs:95-116  the loop of try_get over the listed queues: best_job
BestJob(qmap, qs, best_job) ==
    IF qs = <<>> THEN best_job
    ELSE LET queue == Head(qs)
             last == IF /\ queue \in DOMAIN qmap
                        /\ qmap[queue].kind = "Jobs"
                        /\ qmap[queue].set # {}
                     THEN <<SetLast(qmap[queue].set)>> ELSE <<>>
             better == IF last = <<>> THEN best_job
                       ELSE IF best_job = <<>> THEN last
                       ELSE IF last[1][1] > best_job[1][1] THEN last
                       ELSE best_job
         IN  BestJob(qmap, Tail(qs), better)

\* jobs.rs:90-140  Manager::try_get: the manager after the call and the job
\* it returns
TryGetCall(m, requester_id, qs) ==
    LET best_job == BestJob(m.queues, qs, <<>>)
        job_id == best_job[1][2]
        job == m.jobs[job_id]
        stab == m.queues[job.queue]
    IN  IF best_job = <<>> THEN [manager |-> m, result |-> <<>>]
        ELSE [manager |->
                 [m EXCEPT !.queues[job.queue] =
                              IF stab.kind = "Jobs"
                              THEN QueueJobs(stab.set \ {<<job.priority, job.id>>})
                              ELSE stab,
                           !.jobs[job_id].owner = <<requester_id>>],
              result |-> <<[job EXCEPT !.owner = <<requester_id>>]>>]

\* jobs.rs:225-264  Manager::add_job_to_queue
add_job_to_queue(m, job_id, queue) ==
    LET job == m.jobs[job_id]
        stab == IF queue \in DOMAIN m.queues THEN m.queues[queue] ELSE QueueJobs({})
        list == stab.list
        \* the waiting clients whose sender was not taken yet
        open == {k \in 1..Len(list) : m.channels[list[k][2]].sender = "some"}
        k == CHOOSE i \in open : \A j \in open : j <= i
    IN  IF job_id \notin DOMAIN m.jobs THEN m
        ELSE IF stab.kind = "Jobs"
        THEN [m EXCEPT !.queues =
                 MapInsert(@, queue, QueueJobs(stab.set \cup {<<job.priority, job.id>>}))]
        ELSE IF open # {}
        THEN [m EXCEPT !.queues[queue] = QueueClients(SubSeq(list, 1, k - 1)),
                       !.channels[list[k][2]] = [@ EXCEPT !.sender = "taken", !.value = <<job>>],
                       !.jobs[job_id].owner = <<list[k][1]>>]
        ELSE [m EXCEPT !.queues[queue] = QueueJobs({<<job.priority, job.id>>})]

\* Manager { jobs, new_job_id, queues } with the oneshot channels its queues
\* refer to
Manager == [jobs |-> jobs, new_job_id |-> new_job_id, queues |-> queues,
            channels |-> channels]

SetManager(m) ==
    /\ jobs' = m.jobs
    /\ new_job_id' = m.new_job_id
    /\ queues' = m.queues
    /\ channels' = m.channels

\* client.rs:37-44, jobs.rs:64-82  a PUT request: Manager::add
Put(c, queue, priority) ==
    /\ job_clients[c].pc = "idle"
    /\ new_job_id < MaxJobs
    /\ LET id == new_job_id
           m == [Manager EXCEPT !.new_job_id = id + 1,
                                !.jobs = MapInsert(@, id, Job(id, queue, priority, <<>>))]
       IN  /\ SetManager(add_job_to_queue(m, id, queue))
           /\ returned' = <<>>
    /\ abort_result' = <<>>
    /\ UNCHANGED <<job_clients, lrcpVars, speedVars, storeVars, daemonVars, protoVars, codecVars, lockVars>>

\* client.rs:59, 66-72  a GET request without wait: Manager::try_get
TryGet(c, qs) ==
    /\ job_clients[c].pc = "idle"
    /\ LET call == TryGetCall(Manager, c, qs)
       IN  /\ SetManager(call.manager)
           /\ returned' = call.result
           /\ job_clients' =
                 IF call.result = <<>> THEN job_clients
                 ELSE [job_clients EXCEPT ![c].jobs = @ \cup {call.result[1].id}]
    /\ abort_result' = <<>>
    /\ UNCHANGED <<lrcpVars, speedVars, storeVars, daemonVars, protoVars, codecVars, lockVars>>

\* client.rs:59-65, jobs.rs:146-187  a GET request with wait: Manager::get.
\* With no queue listed the future never resolves; with a job available the
\* future is ready; otherwise a oneshot channel is made and its sender is
\* pushed on every listed queue.
GetWait(c, qs) ==
    /\ job_clients[c].pc = "idle"
    /\ Len(channels) < MaxGets
    /\ LET call == TryGetCall(Manager, c, qs)
           rx == Len(channels) + 1
           Register(qmap, queue) ==
              LET list == IF queue \in DOMAIN qmap /\ qmap[queue].kind = "Clients"
                          THEN qmap[queue].list ELSE <<>>
              IN  MapInsert(qmap, queue, QueueClients(Append(list, <<c, rx>>)))
           registered == IF Len(qs) = 1 THEN Register(queues, qs[1])
                         ELSE Register(Register(queues, qs[1]), qs[2])
       IN  IF qs = <<>>
           THEN /\ job_clients' = [job_clients EXCEPT ![c].pc = "pending"]
                /\ returned' = <<>>
                /\ UNCHANGED <<jobs, new_job_id, queues, channels>>
           ELSE IF call.result # <<>>
           THEN /\ SetManager(call.manager)
                /\ returned' = call.result
                /\ job_clients' = [job_clients EXCEPT ![c].jobs = @ \cup {call.result[1].id}]
           ELSE /\ queues' = registered
                /\ channels' = Append(channels, [client |-> c, sender |-> "some", value |-> <<>>])
                /\ job_clients' = [job_clients EXCEPT ![c].pc = "waiting", ![c].rx = rx]
                /\ returned' = <<>>
                /\ UNCHANGED <<jobs, new_job_id>>
    /\ abort_result' = <<>>
    /\ UNCHANGED <<lrcpVars, speedVars, storeVars, daemonVars, protoVars, codecVars, lockVars>>

\* client.rs:62-64, jobs.rs:182-186  the future of a waiting client resolves
\* with the job that was sent on its channel
Resolve(c) ==
    /\ job_clients[c].pc = "waiting"
    /\ channels[job_clients[c].rx].value # <<>>
    /\ job_clients' = [job_clients EXCEPT
                          ![c].jobs = @ \cup {channels[job_clients[c].rx].value[1].id},
                          ![c].pc = "idle", ![c].rx = 0]
    /\ returned' = <<>>
    /\ abort_result' = <<>>
    /\ UNCHANGED <<jobs, new_job_id, queues, channels,
                   lrcpVars, speedVars, storeVars, daemonVars, protoVars, codecVars, lockVars>>

\* client.rs:45-48, jobs.rs:192-202  a DELETE request: Manager::remove
Delete(c, job_id) ==
    /\ job_clients[c].pc = "idle"
    /\ IF job_id \notin DOMAIN jobs
       THEN /\ returned' = <<>>
            /\ UNCHANGED <<jobs, queues>>
       ELSE LET job == jobs[job_id]
            IN  /\ jobs' = MapRemove(jobs, job_id)
                /\ queues' =
                      IF job.queue \in DOMAIN queues /\ queues[job.queue].kind = "Jobs"
                      THEN [queues EXCEPT ![job.queue] =
                               QueueJobs(@.set \ {<<job.priority, job.id>>})]
                      ELSE queues
                /\ returned' = <<>>
    /\ abort_result' = <<>>
    /\ UNCHANGED <<new_job_id, channels, job_clients,
                   lrcpVars, speedVars, storeVars, daemonVars, protoVars, codecVars, lockVars>>

\* jobs.rs:210-223  Manager::abort: the manager after the call and what it
\* returns: "no job" for Ok(false), "denied" for Err(PermissionDeniedErr)
AbortCall(m, requester_id, job_id) ==
    IF job_id \notin DOMAIN m.jobs THEN [manager |-> m, result |-> "no job"]
    ELSE IF m.jobs[job_id].owner # <<requester_id>> THEN [manager |-> m, result |-> "denied"]
    ELSE [manager |-> add_job_to_queue(m, job_id, m.jobs[job_id].queue), result |-> "ok"]

\* client.rs:49-58  an ABORT request
Abort(c, job_id) ==
    /\ job_clients[c].pc = "idle"
    /\ LET call == AbortCall(Manager, c, job_id)
       IN  /\ SetManager(call.manager)
           /\ returned' = <<>>
           /\ abort_result' = <<call.result>>
           /\ job_clients' = IF call.result = "ok"
                             THEN [job_clients EXCEPT ![c].jobs = @ \ {job_id}]
                             ELSE job_clients
    /\ UNCHANGED <<lrcpVars, speedVars, storeVars, daemonVars, protoVars, codecVars, lockVars>>

RECURSIVE AbortAll(_, _, _)
\* client.rs:78-86  impl Drop for Client: abort every job of the client; the
\* results are the same in every order of the set's iteration, the jobs
\* being different
AbortAll(m, requester_id, ids) ==
    IF ids = {} THEN m
    ELSE LET job_id == CHOOSE id \in ids : TRUE
         IN  AbortAll(AbortCall(m, requester_id, job_id).manager, requester_id,
                      ids \ {job_id})

\* main.rs:39-42, 54  the connection ends and its Client is dropped
Drop(c) ==
    /\ job_clients[c].pc = "idle"
    /\ SetManager(AbortAll(Manager, c, job_clients[c].jobs))
    /\ job_clients' = [job_clients EXCEPT ![c].pc = "dropped"]
    /\ returned' = <<>>
    /\ abort_result' = <<>>
    /\ UNCHANGED <<lrcpVars, speedVars, storeVars, daemonVars, protoVars, codecVars, lockVars>>

JobNext ==
    \E c \in JobClients :
       \/ \E queue \in QueueNames, priority \in Priorities : Put(c, queue, priority)
       \/ \E qs \in QueueLists : TryGet(c, qs)
       \/ \E qs \in QueueLists : GetWait(c, qs)
       \/ Resolve(c)
       \/ \E job_id \in 0..(MaxJobs - 1) : Delete(c, job_id)
       \/ \E job_id \in 0..(MaxJobs - 1) : Abort(c, job_id)
       \/ Drop(c)


(***************************************************************************)
(* voracious-code-storage: the guards of the two DashMaps (storage.rs).    *)
(* files.entry() gives a RefMut, which holds the entry's lock for writing  *)
(* until it is dropped; files.get() and dirs.get() give a Ref, which holds *)
(* it for reading.  The locks block the thread: an action that needs a     *)
(* lock another connection holds is not enabled.  insert and list run      *)
(* without an await, each on the worker thread of its connection's task    *)
(* (main.rs:13, 24: multi-thread runtime, one task per connection).        *)
(* A lock is modelled per entry, the finest the map can have.              *)
(***************************************************************************)

\* a connection outside the store, and what its last call returned
NoCall(ret) ==
    [pc |-> "idle", file |-> <<>>, dir |-> <<>>, revision |-> 0, todo |-> <<>>,
     ret |-> ret]

LockInit ==
    /\ guards = [fw |-> [f \in FileNames |-> 0],     \* RefMut of files: the holder
                 fr |-> [f \in FileNames |-> {}],    \* Refs of files: the holders
                 dr |-> [d \in DirNames |-> {}]]     \* Refs of dirs: the holders
    /\ calls = [c \in Conns |-> NoCall(<<>>)]

\* storage.rs:82-99  the statements of insert that update dirs, in order:
\* one per ancestor directory, then the one for the file's own directory
DirUpdates(f) ==
    LET parts == Split(SubSeq(f, 2, Len(f)), 47)
        n == Len(parts)
    IN  [k \in 1..n |->
           IF k < n THEN <<DirPath(parts, k - 1), "Dir", parts[k]>>
           ELSE <<DirPath(parts, n - 1), "File", parts[n]>>]

\* storage.rs:78-79  insert: files.entry(filepath).or_default() takes the
\* entry's lock for writing, and file_stab keeps it to the end of the call;
\* TempFile::insert
InsertEntry(c, f, body) ==
    /\ calls[c].pc = "idle"
    /\ guards.fw[f] = 0
    /\ guards.fr[f] = {}
    /\ guards' = [guards EXCEPT !.fw[f] = c]
    /\ LET stored == TempFileInsert(files[f], body, Digest(body))
       IN  /\ files' = [files EXCEPT ![f] = stored[1]]
           /\ calls' = [calls EXCEPT ![c] =
                 [pc |-> "insert", file |-> f, dir |-> <<>>, revision |-> 0,
                  todo |-> DirUpdates(f), ret |-> <<"revision", stored[2]>>]]
    /\ UNCHANGED <<dirs, clients, answered, lastPut, lrcpVars, speedVars, daemonVars,
                   protoVars, codecVars, jobVars>>

\* storage.rs:87-90, 96-99  insert: dirs.entry(path).or_default().insert(..)
\* takes the directory's lock for writing for the statement; after the last
\* one insert returns the revision and file_stab is dropped (storage.rs:101-102)
InsertDir(c) ==
    /\ calls[c].pc = "insert"
    /\ LET item == Head(calls[c].todo)
           last == Len(calls[c].todo) = 1
       IN  /\ guards.dr[item[1]] = {}
           /\ dirs' = [dirs EXCEPT ![item[1]] = DirInsert(@, <<item[2], item[3]>>)]
           /\ calls' = [calls EXCEPT ![c] =
                           IF last THEN NoCall(@.ret) ELSE [@ EXCEPT !.todo = Tail(@)]]
           /\ guards' = IF last THEN [guards EXCEPT !.fw[calls[c].file] = 0]
                        ELSE guards
    /\ UNCHANGED <<files, clients, answered, lastPut, lrcpVars, speedVars, daemonVars,
                   protoVars, codecVars, jobVars>>

\* storage.rs:129-133  list: without an entry of dir_path the list is empty;
\* else dirs.get(dir_path) takes the directory's lock for reading, and dir
\* keeps it while the iterator runs
ListEntry(c, d) ==
    /\ calls[c].pc = "idle"
    /\ IF dirs[d] = {}
       THEN /\ calls' = [calls EXCEPT ![c] = NoCall(<<"list">>)]
            /\ UNCHANGED guards
       ELSE /\ guards' = [guards EXCEPT !.dr[d] = @ \cup {c}]
            /\ calls' = [calls EXCEPT ![c] =
                  [pc |-> "list", file |-> <<>>, dir |-> d, revision |-> 0,
                   todo |-> InOrder(dirs[d]), ret |-> <<"list">>]]
    /\ UNCHANGED <<files, dirs, clients, answered, lastPut, lrcpVars, speedVars,
                   daemonVars, protoVars, codecVars, jobVars>>

\* storage.rs:134-149  list, one item of the iterator: a directory gives its
\* name; a file gives its name and last revision, and files.get(dir_path +
\* name) takes the file's lock for reading for the statement.  After the
\* last item list returns and dir is dropped (storage.rs:149-150)
ListItem(c) ==
    /\ calls[c].pc = "list"
    /\ LET stab == Head(calls[c].todo)
           f == calls[c].dir \o stab[2]
           last == Len(calls[c].todo) = 1
           result == IF stab[1] = "Dir" THEN <<"Dir", stab[2]>>
                     ELSE <<"File", stab[2], GetLastRevision(files[f])>>
           ret == Append(calls[c].ret, result)
       IN  /\ stab[1] = "File" => guards.fw[f] = 0
           /\ calls' = [calls EXCEPT ![c] =
                           IF last THEN NoCall(ret)
                           ELSE [@ EXCEPT !.todo = Tail(@), !.ret = ret]]
           /\ guards' = IF last THEN [guards EXCEPT !.dr[calls[c].dir] = @ \ {c}]
                        ELSE guards
    /\ UNCHANGED <<files, dirs, clients, answered, lastPut, lrcpVars, speedVars,
                   daemonVars, protoVars, codecVars, jobVars>>

\* storage.rs:114-116  get: without an entry of name FileNotFound; else
\* files.get(name) takes the file's lock for reading, and file keeps it
\* across the await of TempFile::get (storage.rs:119-123)
GetEntry(c, f, revision) ==
    /\ calls[c].pc = "idle"
    /\ IF files[f].revisions = <<>>
       THEN /\ calls' = [calls EXCEPT ![c] = NoCall(<<"FileNotFound">>)]
            /\ UNCHANGED guards
       ELSE /\ guards.fw[f] = 0
            /\ guards' = [guards EXCEPT !.fr[f] = @ \cup {c}]
            /\ calls' = [calls EXCEPT ![c] =
                  [pc |-> "get", file |-> f, dir |-> <<>>, revision |-> revision,
                   todo |-> <<>>, ret |-> <<>>]]
    /\ UNCHANGED <<files, dirs, clients, answered, lastPut, lrcpVars, speedVars,
                   daemonVars, protoVars, codecVars, jobVars>>

\* storage.rs:118-125  get: the await is over, get returns the handle of the
\* revision or RevisionNotFound, and file is dropped
GetReturn(c) ==
    /\ calls[c].pc = "get"
    /\ LET tf == files[calls[c].file]
           revision == IF calls[c].revision = NoRevision
                       THEN GetLastRevision(tf) ELSE calls[c].revision
       IN  calls' = [calls EXCEPT ![c] =
              NoCall(IF revision > Len(tf.revisions) THEN <<"RevisionNotFound">>
                     ELSE <<"file", calls[c].file, revision>>)]
    /\ guards' = [guards EXCEPT !.fr[calls[c].file] = @ \ {c}]
    /\ UNCHANGED <<files, dirs, clients, answered, lastPut, lrcpVars, speedVars,
                   daemonVars, protoVars, codecVars, jobVars>>

\* concurrent connections that PUT, GET and LIST
LockNext ==
    \E c \in Conns :
       \/ \E f \in FileNames, body \in Contents : InsertEntry(c, f, body)
       \/ InsertDir(c)
       \/ \E d \in DirNames : ListEntry(c, d)
       \/ ListItem(c)
       \/ \E f \in FileNames, revision \in Revisions : GetEntry(c, f, revision)
       \/ GetReturn(c)

\* the runtime runs every task that can go on
LockFairness ==
    \A c \in Conns :
       /\ WF_vars(InsertDir(c))
       /\ WF_vars(ListItem(c))
       /\ WF_vars(GetReturn(c))


Init ==
    /\ LrcpInit /\ SpeedInit /\ StoreInit /\ TicketInit
    /\ ProtoInit /\ CodecInit /\ JobInit /\ LockInit

SpecLrcpIn == Init /\ [][LrcpInNext]_vars

SpecLrcpData == Init /\ [][LrcpDataNext]_vars
SpecLrcpOther == Init /\ [][LrcpOtherNext]_vars
SpecLrcpOut == Init /\ [][LrcpOutNext]_vars
SpecLrcpLive == Init /\ [][LrcpLiveNext]_vars /\ LrcpLiveFairness

SpecSpeed == Init /\ [][SpeedNext]_vars

SpecStore == Init /\ [][StoreNext]_vars
SpecLocks == Init /\ [][LockNext]_vars /\ LockFairness
SpecProto == Init /\ [][ProtoNext]_vars

SpecCodec == Init /\ [][CodecNext]_vars

SpecJobs == Init /\ [][JobNext]_vars

SpecTicket == Init /\ [][TicketNext]_vars
SpecRoute == Init /\ [][RouteNext]_vars
SpecTicketLive == Init /\ [][TicketLiveNext]_vars /\ TicketLiveFairness

SpecClient == Init /\ [][ClientNext]_vars
SpecClientLive == Init /\ [][ClientNext]_vars /\ ClientLiveFairness

(***************************************************************************)
(*                         Claims: line-reversal                           *)
(***************************************************************************)

\* C1: at every moment the bytes a session has written into the application's
\* stream are a prefix of the peer's byte stream B, whatever segments of B
\* arrive, in whatever order and however often (no byte twice, none out of
\* order: the bytes of B are distinct).
C1_DeliveredIsPrefixOfB ==
    \A t \in Tasks : IsPrefix(tasks[t].stream, B)

\* C1 witness: the whole of B has reached the application although a segment
\* that started below the acknowledged length (a duplicate or an overlap) was
\* handled on the way.
C1_Witness ==
    \E t \in Tasks : tasks[t].stream = B /\ tasks[t].overlap

\* C7: over the life of a session the lengths of the /ack/ datagrams the
\* server sends for it never decrease.
C7_AckNonDecreasing ==
    [][\A t \in Tasks :
          (tasks[t].state = "running" /\ tasks'[t].state = "running")
             => tasks'[t].lastAck >= tasks[t].lastAck]_vars

\* C8: when the application writes bytes to a session's stream and the peer
\* stays and acknowledges what it receives over a network that loses
\* datagrams but none permanently, then eventually, and from then on, the
\* highest Ack the sender accepted equals the number of bytes written and no
\* retransmission timer runs (data_sender is back in receive_data.recv()).
C8_OutboundRoundTrip ==
    \/ <>(~peer.alive)
    \/ <>[](\A t \in Tasks :
              \/ tasks[t].state = "unused"
              \/ /\ tasks[t].state = "running"
                 /\ tasks[t].pc = "recv"
                 /\ tasks[t].appOut = 0
                 /\ tasks[t].data_from_client = <<>>
                 /\ tasks[t].sender_ack = tasks[t].appWritten)

\* C9: when the peer's Close arrives after the server has acknowledged all of
\* B, the application (still holding its stream) reads exactly B before
\* end-of-stream.
C9_AckedBytesReachApplication ==
    \A t \in Tasks :
       (/\ tasks[t].state = "done"
        /\ tasks[t].endedBy = "peer_close"
        /\ tasks[t].ackedAtClose = MaxB
        /\ tasks[t].appOpen)
          => tasks[t].stream = B

\* C10: a session that has heard nothing from its peer for more than
\* SESSION_EXPIRY (ExpiryTicks retransmission periods) has been closed
\* (/close/ sent) and forgotten by the listener, with or without outbound data.
C10_SilentSessionExpires ==
    \A t \in Tasks :
       tasks[t].idle > ExpiryTicks
          => (tasks[t].closeSent /\ sessions[tasks[t].session] # t)

\* C11: once a session's task has ended, for whatever reason, the
\* demultiplexer no longer knows the session id (so that a later Data or Ack
\* is answered with /close/ and a later Connect opens a fresh session).
C11_ClosedSessionForgotten ==
    \A t \in Tasks :
       tasks[t].state = "done" => sessions[tasks[t].session] # t

C2_OneTicketPerPlateAndDay ==
    \A i, j \in 1..Len(tickets) :
       (i < j /\ tickets[i].plate = tickets[j].plate) =>
          \/ LastDay(tickets[i]) < FirstDay(tickets[j])
          \/ LastDay(tickets[j]) < FirstDay(tickets[i])

\* C13: once a road's worker has processed its reports, every two recorded
\* observations of a plate on that road whose rounded speed is over the limit
\* have a day of their range in the ledger: the later one either produced a
\* ticket, which records every day of the range, or was skipped because a
\* day of the range was recorded already.
C13_OverLimitPairIsTicketed ==
    \A r \in Roads, plate \in Plates :
       workers[r].pc = "idle" =>
          \A e1 \in records[r][plate], e2 \in records[r][plate] :
             (/\ e1[2] < e2[2]
              /\ e1[1] # e2[1]
              /\ RoundedSpeed(AbsDiff(e1[1], e2[1]), e2[2] - e1[2]) > SpeedLimit(r)
              /\ RoundedSpeed(AbsDiff(e1[1], e2[1]), e2[2] - e1[2]) <= U16_MAX)
                => \E day \in (e1[2] \div DAY_IN_SECS)..(e2[2] \div DAY_IN_SECS) :
                      <<plate, day>> \in ticket_records

\* the tickets received by connection c: written to its socket or waiting in
\* its channel, in order
Received(c) == written[c] \o to_client[c]
\* the ids of the tickets for road r in a sequence of ToClient messages
TicketIds(msgs, r) ==
    LET ts == SelectSeq(msgs, LAMBDA m : m.ty = "Ticket" /\ m.road = r)
    IN  [i \in 1..Len(ts) |-> ts[i].id]
\* the position in ticket_log of the first registration for road r (0: none)
FirstRegistration(r) ==
    LET ks == {k \in 1..Len(ticket_log) :
                 /\ ticket_log[k].ty = "RegisterDispatcher"
                 /\ \E i \in 1..Len(ticket_log[k].roads) : ticket_log[k].roads[i] = r}
    IN  IF ks = {} THEN 0 ELSE CHOOSE k \in ks : \A j \in ks : k <= j
\* the ids of the tickets for road r issued before position k of ticket_log
IssuedBefore(r, k) ==
    LET ts == SelectSeq(SubSeq(ticket_log, 1, k - 1),
                        LAMBDA m : m.ty = "SubmitTicket" /\ m.ticket.road = r)
    IN  [i \in 1..Len(ts) |-> ts[i].ticket.id]
\* the ticket system is past the message at position k of ticket_log
Handled(k) ==
    /\ k <= Len(ticket_log) - Len(ticket_queue)
    /\ ~(tsys.pc = "register" /\ k = Len(ticket_log) - Len(ticket_queue))

\* C14: the tickets for a road issued before the road's first dispatcher
\* registered reach that dispatcher in the order of issue and before any
\* later ticket for the road; once the ticket system is past the
\* registration, the dispatcher, if still connected, has received all of them.
C14_PendingTicketsReachFirstDispatcher ==
    \A r \in Roads :
       LET k == FirstRegistration(r)
       IN  k > 0 =>
             LET c == ticket_log[k].drx
                 got == TicketIds(Received(c), r)
                 before == IssuedBefore(r, k)
             IN  RxOpen(c) =>
                    /\ IsPrefix(got, before) \/ IsPrefix(before, got)
                    /\ Handled(k) => IsPrefix(before, got)

\* C15: the ticket system stays alive, and the speed of every ticket sent to
\* a dispatcher is 100 times the rounded speed of the ticket issued.
C15_WireSpeedIsHundredTimes ==
    /\ TsysAlive
    /\ \A c \in Clients :
          \A i \in 1..Len(Received(c)) :
             Received(c)[i].ty = "Ticket" =>
                \E k \in 1..Len(ticket_log) :
                   /\ ticket_log[k].ty = "SubmitTicket"
                   /\ ticket_log[k].ticket.id = Received(c)[i].id
                   /\ Received(c)[i].speed = ticket_log[k].ticket.speed * SPEED_FACTOR

\* C20: while road 2 has connection 2 as its only dispatcher, which reads
\* all the time, every ticket for road 2 handed to the ticket system is
\* eventually written to connection 2, whatever the dispatcher of road 1
\* does.
C20_OtherRoadsTicketsDelivered ==
    \A id \in 1..MaxTickets :
       (/\ dispatchers[2] = <<2>>
        /\ \E i \in 1..Len(ticket_queue) :
              /\ ticket_queue[i].ty = "SubmitTicket"
              /\ ticket_queue[i].ticket.road = 2
              /\ ticket_queue[i].ticket.id = id)
          ~> (\E j \in 1..Len(written[2]) :
                 written[2][j].ty = "Ticket" /\ written[2][j].id = id)

\* the messages connection c sent to the record and to the ticket system
RecordMsgs(log, c) == SelectSeq(log, LAMBDA m : m[2] = c)
TicketMsgs(log, c) == SelectSeq(log, LAMBDA m : m.drx = c)
\* the number of messages of type ty in a sequence of ToClient messages
CountOf(msgs, ty) == Len(SelectSeq(msgs, LAMBDA m : m.ty = ty))

\* a step that handles IAmCamera or IAmDispatcher with the role set already,
\* or Plate in a role other than Camera
RoleMisuse(c) ==
    \/ /\ conns[c].mode # "Unregistered"
       /\ \/ \E road \in Roads, mile \in CameraMiles : IAmCamera(c, road, mile)
          \/ \E roads \in RoadLists : IAmDispatcher(c, roads)
    \/ /\ conns[c].mode # "Camera"
       /\ \E plate \in Plates, timestamp \in PlateTimes : Plate(c, plate, timestamp)

\* a step whose only effects are one Error for connection c and the end of
\* from_client
OneErrorAndStop(c) ==
    /\ written'[c] \o to_client'[c] = Append(written[c] \o to_client[c], ErrorToClient)
    /\ conns'[c].from_client = "returned"
    /\ conns'[c].mode = conns[c].mode
    /\ record_log' = record_log
    /\ ticket_log' = ticket_log
    /\ ticket_queue' = ticket_queue
    /\ dispatchers' = dispatchers
    /\ pending_tickets' = pending_tickets

\* C16: the role of a connection changes only from Unregistered to Camera or
\* Dispatcher; IAmCamera or IAmDispatcher with the role set, or Plate in a role
\* other than Camera, sends exactly one Error and touches neither the record
\* nor the ticket system; once from_client has stopped, the connection sends
\* nothing more to the systems, keeps its role and gets no second Error.
C16_RoleStateMachine ==
    /\ [][\A c \in Clients :
            conns'[c].mode # conns[c].mode =>
               /\ conns[c].mode = "Unregistered"
               /\ conns'[c].mode \in {"Camera", "Dispatcher"}]_vars
    /\ [][\A c \in Clients : RoleMisuse(c) => OneErrorAndStop(c)]_vars
    /\ [][\A c \in Clients :
            conns[c].from_client # "running" =>
               /\ conns'[c].from_client = conns[c].from_client
               /\ conns'[c].mode = conns[c].mode
               /\ conns'[c].last = conns[c].last
               /\ RecordMsgs(record_log', c) = RecordMsgs(record_log, c)
               /\ TicketMsgs(ticket_log', c) = TicketMsgs(ticket_log, c)
               /\ CountOf(written'[c] \o to_client'[c], "Error")
                     <= CountOf(written[c] \o to_client[c], "Error")]_vars

\* C16 witness: a dispatcher sent IAmCamera and was answered with an Error.
C16_Witness ==
    \E c \in Clients :
       /\ conns[c].mode = "Dispatcher"
       /\ conns[c].last = "IAmCamera"
       /\ conns[c].from_client = "returned"
       /\ conns[c].connected
       /\ CountOf(written[c], "Error") = 1

\* C17: once an Error has been written to a connection whose peer stays
\* connected, the server eventually closes the connection.
C17_ErrorThenClosed ==
    \A c \in Clients :
       (conns[c].connected /\ CountOf(written[c], "Error") > 0)
          ~> (conns[c].closed \/ ~conns[c].connected)

\* C18: the first WantHeartbeat fixes the heartbeat setting, an interval of 0
\* included; a later WantHeartbeat gets an Error, stops from_client and leaves
\* the setting as it is; WantHeartbeat never changes the role.
C18_HeartbeatSetOnce ==
    /\ [][\A c \in Clients :
            conns[c].hb # -1 => conns'[c].hb = conns[c].hb]_vars
    /\ [][\A c \in Clients, interval \in Intervals :
            WantHeartbeat(c, interval) =>
               /\ conns'[c].mode = conns[c].mode
               /\ conns[c].hb = -1 =>
                     /\ conns'[c].hb = interval
                     /\ conns'[c].from_client = "running"
                     /\ to_client'[c] = to_client[c]
               /\ conns[c].hb # -1 =>
                     /\ conns'[c].hb = conns[c].hb
                     /\ conns'[c].from_client = "returned"
                     /\ written'[c] \o to_client'[c] =
                           Append(written[c] \o to_client[c], ErrorToClient)]_vars

\* C18 witness: a camera that had set the interval 0 sent WantHeartbeat again.
C18_Witness ==
    \E c \in Clients :
       /\ conns[c].mode = "Camera"
       /\ conns[c].hb = 0
       /\ conns[c].last = "WantHeartbeat"
       /\ conns[c].from_client = "returned"
       /\ conns[c].connected
       /\ CountOf(written[c], "Error") = 1

\* the ticks of an interval of p ms started at time start that lie before t
TicksBefore(start, p, t) == (t - start + p - 1) \div p

\* C19: a connection whose WantHeartbeat had an interval > 0 is sent one
\* Heartbeat every interval / 10 seconds (interval * 100 ms), the first at
\* once, and while its peer reads they are written as they fall due; a
\* connection without WantHeartbeat, or with interval 0, gets no Heartbeat.
C19_HeartbeatEveryInterval ==
    \A c \in Clients :
       /\ conns[c].hb <= 0 =>
             /\ conns[c].hb_sent = <<>>
             /\ CountOf(written[c] \o to_client[c], "Heartbeat") = 0
       /\ conns[c].hb > 0 =>
             /\ \A k \in 1..Len(conns[c].hb_sent) :
                   conns[c].hb_sent[k] = conns[c].hb_start + (k - 1) * conns[c].hb * 100
             /\ (conns[c].connected /\ conns[c].reading /\ ~conns[c].closed) =>
                   CountOf(written[c], "Heartbeat")
                      >= TicksBefore(conns[c].hb_start, conns[c].hb * 100, now)

\* C19 witness: three Heartbeats, 100 ms apart, were written to a connection
\* that asked for interval 1.
C19_Witness ==
    \E c \in Clients :
       /\ conns[c].hb = 1
       /\ CountOf(written[c], "Heartbeat") >= 3
       /\ now >= conns[c].hb_start + 200

(***************************************************************************)
(*                    Claims: voracious-code-storage                       *)
(***************************************************************************)

\* C3: a GET of F without a revision that follows an accepted PUT of content
\* C to F, with no other PUT to F in between, returns exactly C.  Stated for
\* the GETs that return a stored revision intact: what they return is the
\* content of the PUT inserted last before the GET looked the file up.
C3_GetLatestReturnsLastPut ==
    \A c \in Conns :
       (/\ clients[c].pc = "get_done"
        /\ clients[c].latest
        /\ clients[c].out =
              files[clients[c].file].revisions[clients[c].revision].content)
          => clients[c].out = clients[c].want

\* C4: a PUT to F whose content equals the content of an existing revision of
\* F returns that revision's number and leaves the number of revisions of F
\* unchanged; two answered PUTs of the same content to the same file carry the
\* same revision number.
C4_Deduplication ==
    /\ [](\A a, b \in answered : (a[1] = b[1] /\ a[3] = b[3]) => a[2] = b[2])
    /\ [][\A c \in Conns :
            (clients[c].pc = "insert" /\ clients'[c].pc = "respond_put") =>
               LET f == clients[c].file
                   old == files[f].revisions
                   hit == {k \in 1..Len(old) : old[k].content = clients[c].body}
               IN  hit # {} => /\ clients'[c].revision \in hit
                               /\ Len(files'[f].revisions) = Len(old)]_vars

\* C4 witness: a PUT has just been given the revision number of an earlier
\* answered PUT of the same content, and that revision is not the latest.
C4_Witness ==
    \E c \in Conns, a \in answered :
       /\ clients[c].pc = "respond_put"
       /\ clients[c].file = a[1]
       /\ clients[c].body = a[3]
       /\ clients[c].revision = a[2]
       /\ clients[c].revision < Len(files[a[1]].revisions)

\* C5: for every file, under any interleaving of the connections' PUTs, the
\* revisions are numbered 1..k without gaps, distinct contents have distinct
\* numbers, k is the number of distinct contents PUT (once every PUT is
\* answered), and an existing revision is never removed or renumbered.
C5_RevisionDensity ==
    /\ [](\A f \in FileNames :
            LET tf == files[f]
                k == Len(tf.revisions)
                acks == {a \in answered : a[1] = f}
            IN  /\ Len(tf.hashes) = k
                /\ \A i \in 1..k : /\ tf.hashes[i][2] = i
                                   /\ tf.hashes[i][1] = Digest(tf.revisions[i].content)
                /\ \A i, j \in 1..k :
                      tf.revisions[i].content = tf.revisions[j].content => i = j
                /\ \A a \in acks : /\ a[2] \in 1..k
                                   /\ tf.revisions[a[2]].content = a[3]
                /\ (\A c \in Conns : ~(clients[c].pc = "respond_put"
                                       /\ clients[c].file = f))
                      => /\ {a[2] : a \in acks} = 1..k
                         /\ Cardinality({a[3] : a \in acks}) = k)
    /\ [][\A f \in FileNames :
            /\ Len(files'[f].revisions) >= Len(files[f].revisions)
            /\ \A i \in 1..Len(files[f].revisions) :
                  files'[f].revisions[i].content = files[f].revisions[i].content]_vars

\* C5 witness: both connections have inserted into the same file before
\* either was answered, and got the revisions 1 and 2.
C5_Witness ==
    /\ clients[1].pc = "respond_put"
    /\ clients[2].pc = "respond_put"
    /\ clients[1].file = clients[2].file
    /\ {clients[1].revision, clients[2].revision} = {1, 2}

\* C6: once a PUT of content C to F was answered OK r<k>, every GET of F at
\* revision k returns exactly C.
C6_RevisionStability ==
    \A c \in Conns :
       (clients[c].pc = "get_done" /\ ~clients[c].latest) =>
          \A a \in answered :
             (a[1] = clients[c].file /\ a[2] = clients[c].revision)
                => clients[c].out = a[3]

\* The line protocol, as its client sees it.
\* the line read_line returns next on connection c
NextLine(c) ==
    LET input == stream[c].input
        newlines == {i \in 1..Len(input) : input[i] = 10}
    IN  IF newlines = {} THEN input
        ELSE SubSeq(input, 1, CHOOSE i \in newlines : \A j \in newlines : i <= j)

\* the bytes a file may hold: ASCII graphic, CR, LF, space, tab
AllowedBytes == (33..126) \cup {13, 10, 32, 9}

\* C21: a PUT whose body has a byte outside the allowed set, or whose
\* connection ends before the declared number of bytes arrived, creates no
\* revision and leaves every file's revisions and every directory as they
\* were; the first is answered ERR text files only (and READY), the second
\* ends the session without an answer.  No stored revision ever holds a byte
\* outside the allowed set.
C21_RejectedPutLeavesStore ==
    /\ [](\A f \in DOMAIN files : \A k \in 1..Len(files[f].revisions) :
            \A i \in 1..Len(files[f].revisions[k].content) :
               files[f].revisions[k].content[i] \in AllowedBytes)
    /\ [][\A c \in ProtoConns :
            handler[c].pc = "body" =>
               LET took == Len(stream[c].input) - Len(stream'[c].input)
                   wrote == SubSeq(stream'[c].output, Len(stream[c].output) + 1,
                                   Len(stream'[c].output))
               IN  /\ (\E i \in 1..took : stream[c].input[i] \notin AllowedBytes) =>
                         /\ files' = files
                         /\ dirs' = dirs
                         /\ Len(wrote) = 2
                         /\ wrote[1][1] = "ERR" /\ wrote[1][2] = "text files only"
                         /\ wrote[2][1] = "READY"
                         /\ handler'[c].pc = "line"
                   /\ (/\ stream[c].input = <<>>
                       /\ stream[c].eof
                       /\ handler'[c] # handler[c]) =>
                         /\ files' = files
                         /\ dirs' = dirs
                         /\ wrote = <<>>
                         /\ handler'[c].pc = "closed"]_vars

\* C21 witness: a file has a revision, and the last answer on a connection
\* that waits for its next request is ERR text files only.
C21_Witness ==
    \E c \in ProtoConns :
       LET out == stream[c].output
       IN  /\ handler[c].pc = "line"
           /\ Len(out) >= 2
           /\ out[Len(out) - 1][1] = "ERR"
           /\ out[Len(out) - 1][2] = "text files only"
           /\ \E f \in DOMAIN files : files[f].revisions # <<>>

\* C22: for every PUT with a valid name and length len the server takes
\* exactly len bytes of body off the connection before it reads the next
\* request line, whether the PUT is accepted or answered ERR text files only.
C22_PutBodyConsumedExactly ==
    [][\A c \in ProtoConns :
          (handler[c].pc = "body" /\ handler'[c].pc = "line") =>
             handler[c].wcount + (Len(stream[c].input) - Len(stream'[c].input))
                = handler[c].byte_count]_vars

\* C23: what the server has written on a connection is the greeting READY,
\* then responses (OK or ERR) each followed by exactly one READY: READY is at
\* the odd places and only there, and nothing is written before the greeting.
C23_ReadyTurnTaking ==
    \A c \in ProtoConns :
       LET out == stream[c].output
       IN  /\ handler[c].pc = "new" => out = <<>>
           /\ handler[c].pc # "new" => Len(out) % 2 = 1
           /\ \A i \in 1..Len(out) :
                 /\ i % 2 = 1 => out[i][1] = "READY"
                 /\ i % 2 = 0 => out[i][1] \in {"OK", "ERR"}

\* C23 witness: the greeting, an OK response and an ERR response, each with
\* its READY.
C23_Witness ==
    \E c \in ProtoConns :
       LET out == stream[c].output
       IN  /\ Len(out) = 5
           /\ out[2][1] = "OK"
           /\ out[4][1] = "ERR"

\* C24: a line with an unknown method is answered ERR illegal method: <X> and
\* ends the session; a line with bad usage, an illegal file name or an illegal
\* dir name, and a GET of a missing file or revision, is answered with its ERR
\* line and the connection goes on to its next request; a blank line is
\* answered with nothing; none of them changes the store, and a connection
\* whose session has ended reads and writes nothing more.
C24_ErrorClasses ==
    [][\A c \in ProtoConns :
          LET took == Len(stream[c].input) - Len(stream'[c].input)
              wrote == SubSeq(stream'[c].output, Len(stream[c].output) + 1,
                              Len(stream'[c].output))
              line == NextLine(c)
              words == SplitAsciiWhitespace(Trim(line))
              request == RequestFromStr(line)
              highest == IF request.filename \in DOMAIN files
                         THEN Len(files[request.filename].revisions) ELSE 0
              Answered(reason) ==
                 /\ Len(wrote) = 2
                 /\ wrote[1][1] = "ERR" /\ wrote[1][2] = reason
                 /\ wrote[2][1] = "READY"
                 /\ files' = files
                 /\ dirs' = dirs
          IN  /\ handler[c].pc = "closed" =>
                    /\ took <= 0
                    /\ stream'[c].output = stream[c].output
                    /\ handler'[c] = handler[c]
              /\ (handler[c].pc = "line" /\ took > 0) =>
                    /\ words = <<>> =>
                          /\ wrote = <<>> /\ files' = files /\ dirs' = dirs
                          /\ handler'[c].pc = "line"
                    /\ (/\ words # <<>>
                        /\ ToUppercase(words[1]) \notin
                              {<<80, 85, 84>>, <<71, 69, 84>>,
                               <<76, 73, 83, 84>>, <<72, 69, 76, 80>>}) =>
                          /\ Answered("illegal method: ")
                          /\ wrote[1][3] = ToUppercase(words[1])
                          /\ handler'[c].pc = "closed"
                    /\ (/\ words # <<>>
                        /\ request.ty = "Err"
                        /\ request.reason # "illegal method: ") =>
                          /\ Answered(request.reason)
                          /\ handler'[c].pc = "line"
                    /\ (words # <<>> /\ request.ty = "Get" /\ highest = 0) =>
                          /\ Answered("no such file")
                          /\ handler'[c].pc = "line"
                    /\ (/\ words # <<>>
                        /\ request.ty = "Get"
                        /\ highest > 0
                        /\ request.revision # NoRevision
                        /\ request.revision \notin 1..highest) =>
                          /\ Answered("no such revision")
                          /\ handler'[c].pc = "line"]_vars

\* C25: for every stored file /d1/.../dn/name, LIST of each ancestor
\* directory has the entry of the next directory name, LIST of the file's
\* parent directory has the entry of the file's name with the file's highest
\* revision, and the entries of every LIST are in ascending order of name.
C25_DirectoryIndex ==
    /\ \A f \in DOMAIN files :
          files[f].revisions # <<>> =>
             \A item \in DirItems(f) :
                LET listing == List(files, dirs, item[1])
                    kind == IF item[2] = "Dir" THEN "DIR" ELSE "FILE"
                    rev == IF item[2] = "Dir" THEN 0 ELSE Len(files[f].revisions)
                IN  \E k \in 1..Len(listing) :
                       /\ listing[k][1] = item[3]
                       /\ listing[k][2] = kind
                       /\ listing[k][3] = rev
    /\ \A d \in DOMAIN dirs :
          LET listing == List(files, dirs, d)
          IN  \A i, j \in 1..Len(listing) :
                 i < j => StrLess(listing[i][1], listing[j][1])

\* C26: a GET of a name with no stored file is answered ERR no such file; a
\* GET of a stored file with a revision outside 1..highest, 0 included, is
\* answered ERR no such revision; both leave the store as it was and the
\* connection goes on to its next request; a GET with a revision in
\* 1..highest, or without one, is answered OK.
C26_GetErrors ==
    [][\A c \in ProtoConns :
          LET took == Len(stream[c].input) - Len(stream'[c].input)
              wrote == SubSeq(stream'[c].output, Len(stream[c].output) + 1,
                              Len(stream'[c].output))
              request == RequestFromStr(NextLine(c))
              highest == IF request.filename \in DOMAIN files
                         THEN Len(files[request.filename].revisions) ELSE 0
              Answered(reason) ==
                 /\ Len(wrote) = 2
                 /\ wrote[1][1] = "ERR" /\ wrote[1][2] = reason
                 /\ wrote[2][1] = "READY"
                 /\ files' = files
                 /\ dirs' = dirs
                 /\ handler'[c].pc = "line"
          IN  (/\ handler[c].pc = "line"
               /\ took > 0
               /\ Trim(NextLine(c)) # <<>>
               /\ request.ty = "Get") =>
                 IF highest = 0 THEN Answered("no such file")
                 ELSE IF /\ request.revision # NoRevision
                         /\ request.revision \notin 1..highest
                 THEN Answered("no such revision")
                 ELSE /\ Len(wrote) = 2
                      /\ wrote[1][1] = "OK"
                      /\ wrote[1][3] =
                            files[request.filename].revisions[
                               IF request.revision = NoRevision THEN highest
                               ELSE request.revision].content]_vars

(***************************************************************************)
(* Properties of the text form of the LRCP datagrams.                      *)
(***************************************************************************)
\* numeric fields in the form the wire format's writer produces, and numeric
\* fields whose value is above 2^32 - 1
CanonicalNumerals == {<<48>>, <<55>>, <<52, 50, 57, 52, 57, 54, 55, 50, 57, 53>>}
OversizeNumerals ==
    {<<52, 50, 57, 52, 57, 54, 55, 50, 57, 54>>, <<57, 57, 57, 57, 57, 57, 57, 57, 57, 57, 57>>}

\* the number of '\' directly before place i of d
BackslashesBefore(d, i) ==
    LET others == {j \in 1..(i - 1) : d[j] # 92}
    IN  IF others = {} THEN i - 1
        ELSE i - 1 - (CHOOSE j \in others : \A k \in others : k <= j)

\* the wire format's escaping: a '\' after an even number of '\' escapes the
\* character after it, which is a '/' or a '\'; every '/' is escaped
ProperlyEscaped(d) ==
    \A i \in 1..Len(d) :
       /\ d[i] = 47 => BackslashesBefore(d, i) % 2 = 1
       /\ (d[i] = 92 /\ BackslashesBefore(d, i) % 2 = 0) =>
             (i < Len(d) /\ d[i + 1] \in {47, 92})

\* a datagram /data/SESSION/POS/DATA/ of a peer
DataDatagram ==
    /\ codec.op \in {"from_str", "reserialized"}
    /\ codec.framed
    /\ Len(codec.fields) = 4
    /\ codec.fields[1] = <<100, 97, 116, 97>>

\* a peer's datagram as the wire format defines it
WellFormed ==
    /\ codec.framed
    /\ \/ /\ Len(codec.fields) = 2
          /\ codec.fields[1] \in {<<99, 111, 110, 110, 101, 99, 116>>, <<99, 108, 111, 115, 101>>}
          /\ codec.fields[2] \in CanonicalNumerals
       \/ /\ Len(codec.fields) = 3
          /\ codec.fields[1] = <<97, 99, 107>>
          /\ codec.fields[2] \in CanonicalNumerals
          /\ codec.fields[3] \in CanonicalNumerals
       \/ /\ Len(codec.fields) = 4
          /\ codec.fields[1] = <<100, 97, 116, 97>>
          /\ codec.fields[2] \in CanonicalNumerals
          /\ codec.fields[3] \in CanonicalNumerals
          /\ ProperlyEscaped(codec.fields[4])

\* C27: every Data datagram the sender builds, with its framing, its header
\* digits and its escaped payload, is at most MAX_MESSAGE_SIZE = 1000 bytes,
\* whatever the application has written.
C27_DatagramSizeBound ==
    codec.op = "data_sender" => Len(codec.text) <= MAX_MESSAGE_SIZE

\* C28: parsing the text of Data{session, position, s} succeeds and gives
\* Data{session, position, s} again, for every payload s of '/', '\' and
\* ordinary characters, the empty one included; and the text a well-formed
\* datagram parses to is serialized to that datagram again.
C28_EscapingRoundTrip ==
    /\ (codec.op = "round_trip" /\ codec.message.ty = "Data") =>
          codec.parsed = [ok |-> TRUE, err |-> "", message |-> codec.message]
    /\ (codec.op = "reserialized" /\ WellFormed) => codec.again = codec.text

C28_Witness ==
    /\ codec.op = "round_trip"
    /\ codec.message.ty = "Data"
    /\ codec.message.data = <<92, 47, 97>>
    /\ codec.text = <<47, 100, 97, 116, 97, 47, 55, 47, 48, 47, 92, 92, 92, 47, 97, 47>>
    /\ codec.parsed.ok

\* C29: a datagram /data/SESSION/POS/DATA/ does not parse when DATA has, at
\* any place, a '/' that is not escaped, an escaping '\' that is not followed
\* by '/' or '\', or when SESSION or POS is a number above 2^32 - 1.
C29_EscapingValidation ==
    (/\ DataDatagram
     /\ \/ ~ProperlyEscaped(codec.fields[4])
        \/ codec.fields[2] \in OversizeNumerals
        \/ codec.fields[3] \in OversizeNumerals) => ~codec.parsed.ok

(***************************************************************************)
(* Properties of the job manager.                                          *)
(***************************************************************************)
\* the (priority, job id) entries pending in a queue
PendingIn(qmap, queue) ==
    IF queue \in DOMAIN qmap /\ qmap[queue].kind = "Jobs" THEN qmap[queue].set ELSE {}

\* C30: try_get(requester, queues) returns a job of the highest priority
\* among the jobs pending in the listed queues, takes it out of its queue and
\* makes the requester its owner; it returns None exactly when no listed
\* queue has a pending job, and then it changes nothing.
C30_TryGet ==
    [][\A c \in JobClients, qs \in QueueLists :
          TryGet(c, qs) =>
             LET pending == UNION {PendingIn(queues, qs[i]) : i \in 1..Len(qs)}
                 job == returned'[1]
             IN  IF pending = {}
                 THEN /\ returned' = <<>>
                      /\ UNCHANGED <<jobs, new_job_id, queues, channels, job_clients>>
                 ELSE /\ returned' # <<>>
                      /\ <<job.priority, job.id>> \in pending
                      /\ \A e \in pending : e[1] <= job.priority
                      /\ job.id \in DOMAIN jobs
                      /\ job.queue = jobs[job.id].queue
                      /\ job.priority = jobs[job.id].priority
                      /\ \A q \in QueueNames :
                            PendingIn(queues', q) =
                               PendingIn(queues, q) \ {<<job.priority, job.id>>}
                      /\ DOMAIN jobs' = DOMAIN jobs
                      /\ jobs'[job.id].owner = <<c>>
                      /\ job.owner = <<c>>
                      /\ \A k \in DOMAIN jobs \ {job.id} : jobs'[k] = jobs[k]]_vars

\* a job of priority 2 was returned from q2 to client 1 while a job of
\* priority 1 stays pending in q1
C30_Witness ==
    /\ returned # <<>>
    /\ returned[1].priority = 2
    /\ returned[1].queue = "q2"
    /\ returned[1].id \in job_clients[1].jobs
    /\ jobs[returned[1].id].owner = <<1>>
    /\ \E e \in PendingIn(queues, "q1") : e[1] = 1
    /\ PendingIn(queues, "q2") = {}

\* a client is working on a job: the job exists, was handed to the client
\* and is not back in its queue
WorkingOn(c, job_id) ==
    /\ job_id \in DOMAIN jobs
    /\ jobs[job_id].owner = <<c>>
    /\ <<jobs[job_id].priority, job_id>> \notin PendingIn(queues, jobs[job_id].queue)

\* C31: abort(requester, id) returns true, and makes the job available
\* again, only when the requester is working on the job; for an existing job
\* the requester is not working on it returns the permission error and
\* changes nothing; for a job that does not exist it returns false.
C31_AbortPermission ==
    [][\A c \in JobClients, job_id \in 0..(MaxJobs - 1) :
          Abort(c, job_id) =>
             IF job_id \notin DOMAIN jobs
             THEN /\ abort_result' = <<"no job">>
                  /\ UNCHANGED <<jobs, new_job_id, queues, channels, job_clients>>
             ELSE IF WorkingOn(c, job_id)
             THEN /\ abort_result' = <<"ok">>
                  /\ ~WorkingOn(c, job_id)'
                  /\ \/ <<jobs[job_id].priority, job_id>> \in
                           PendingIn(queues', jobs[job_id].queue)
                     \/ \E k \in 1..Len(channels) :
                           /\ channels[k].value = <<>>
                           /\ channels'[k].value # <<>>
                           /\ channels'[k].value[1].id = job_id
                           /\ jobs'[job_id].owner = <<channels[k].client>>
             ELSE /\ abort_result' = <<"denied">>
                  /\ UNCHANGED <<jobs, new_job_id, queues, channels, job_clients>>]_vars

\* C32: the session task takes a Data{pos, text} while its delivered length
\* is A.  With pos <= A it hands exactly text[A-pos..] to the application,
\* advances A by the length of that suffix and sends /ack/SESSION/A'/
\* (nothing is handed over when the suffix is empty, and A is acknowledged);
\* with pos > A nothing is handed over and A stays; when the buffer to the
\* application is full, A stays and no /ack/ is sent.
C32_DataStep ==
    [][\A t \in Tasks :
          (ServerRecv(t) /\ Head(tasks[t].from_server).ty = "Data") =>
             LET msg == Head(tasks[t].from_server)
                 A == tasks[t].ack
                 suffix == DropFirst(msg.text, A - msg.position)
                 rest == [tasks[t] EXCEPT !.from_server = Tail(@)]
             IN  IF msg.position > A
                 THEN /\ tasks'[t].ack = A
                      /\ tasks'[t].data_to_client = tasks[t].data_to_client
                      /\ Running(t)'
                 ELSE IF suffix = <<>>
                 THEN /\ tasks'[t].ack = A
                      /\ tasks'[t].data_to_client = tasks[t].data_to_client
                      /\ tasks'[t].lastAck = A
                      /\ Running(t)'
                 ELSE IF Len(tasks[t].data_to_client) >= InternalBufferSize
                 THEN tasks'[t] = rest
                 ELSE /\ tasks'[t].data_to_client =
                            Append(tasks[t].data_to_client, suffix)
                      /\ tasks'[t].ack = A + Len(suffix)
                      /\ tasks'[t].lastAck = A + Len(suffix)
                      /\ Running(t)']_vars

\* C33: a Connect for an unknown session creates one session task bound to
\* the sender's address, puts one stream on the accept queue and is answered
\* /ack/SESSION/0/; a Connect for a known session creates no task and no
\* stream and is answered /ack/SESSION/A/, A being the session's delivered
\* length.
C33_ConnectStep ==
    [][\A s \in SessionIds, a \in Addrs :
          RecvConnect(s, a) =>
             IF sessions[s] = 0
             THEN LET t == sessions'[s] IN
                  /\ t \in Tasks
                  /\ tasks[t].state = "unused"
                  /\ tasks'[t] = NewTask(s, a)
                  /\ \A u \in Tasks \ {t} : tasks'[u] = tasks[u]
                  /\ accepted' = Append(accepted, t)
                  /\ tasks'[t].lastAck = 0
             ELSE LET t == sessions[s] IN
                  /\ UNCHANGED <<sessions, accepted>>
                  /\ \A u \in Tasks : tasks'[u].state = tasks[u].state
                  /\ tasks'[t].lastAck = tasks[t].ack]_vars


\* the step of listen_to_server that sends an /ack/ datagram: it takes a Data
\* message and does not drop it for a full buffer (connection.rs:100-125)
SendsAck(t) ==
    /\ ServerRecv(t)
    /\ LET msg == Head(tasks[t].from_server) IN
       /\ msg.ty = "Data"
       /\ ~ /\ msg.position <= tasks[t].ack
            /\ tasks[t].ack - msg.position < Len(msg.text)
            /\ Len(tasks[t].data_to_client) >= InternalBufferSize

\* the listener removed the session's entry while its task is still running
TornDown(t) == Running(t) /\ sessions[tasks[t].session] # t

\* C34: a Close removes the session's entry exactly when the session is known
\* and the Close comes from the address bound at Connect; any other Close
\* changes nothing of the session; and the task of a session whose entry was
\* removed sends no further /ack/ for it.
C34_CloseOwnership ==
    [][/\ \A s \in SessionIds, a \in Addrs :
             RecvClose(s, a) =>
                IF sessions[s] # 0 /\ a = tasks[sessions[s]].addr
                THEN sessions'[s] = 0
                ELSE /\ sessions' = sessions
                     /\ \A t \in Tasks : tasks'[t] = [tasks[t] EXCEPT !.idle = 0]
       /\ \A t \in Tasks : TornDown(t) => ~SendsAck(t)]_vars


\* C35: a Data or Ack datagram for an existing session that comes from an
\* address other than the one bound at Connect is rejected.  When all of them
\* come from another address, nothing is delivered to the application, the
\* session's ack and its acknowledged send position stay 0, and the session's
\* task is not ended.
C35_OtherAddressRejected ==
    \A t \in Tasks :
       (tasks[t].state # "unused" /\ tasks[t].addr = "peer") =>
          /\ tasks[t].state = "running"
          /\ tasks[t].data_to_client = <<>>
          /\ tasks[t].stream = <<>>
          /\ tasks[t].ack = 0
          /\ tasks[t].receive_ack = <<>>
          /\ tasks[t].sender_ack = 0


\* C37: Q (data_sender's ack) never exceeds P (sent_len) and neither
\* decreases while the session runs; a retransmission tick with Q < P sends
\* Data starting at position Q; data_sender sets Q to L when it takes an
\* Ack{L} with Q < L <= P, and changes nothing when L <= Q.
C37_SenderPositions ==
    [][\A t \in Tasks :
          /\ Running(t)' => tasks'[t].sender_ack <= tasks'[t].sent_len
          /\ (Running(t) /\ Running(t)') =>
                /\ tasks'[t].sender_ack >= tasks[t].sender_ack
                /\ tasks'[t].sent_len >= tasks[t].sent_len
          /\ (RetryTick(t) /\ tasks[t].sender_ack < tasks[t].sent_len) =>
                tasks'[t].lastData[1] = tasks[t].sender_ack
          /\ SenderAck(t) =>
                LET L == Head(tasks[t].receive_ack) IN
                IF L <= tasks[t].sender_ack
                THEN tasks'[t] = [tasks[t] EXCEPT !.receive_ack = Tail(@)]
                ELSE IF L <= tasks[t].sent_len
                THEN Running(t)' /\ tasks'[t].sender_ack = L
                ELSE TRUE]_vars


\* data_sender has sent bytes that are not acknowledged: it waits in the
\* select! of connection.rs:201-224
Awaiting(t) == Running(t) /\ tasks[t].pc = "wait"

\* C36: a session with outbound bytes awaiting acknowledgment is closed
\* (/close/ sent) once SESSION_EXPIRY passes without an Ack that advances the
\* acknowledged position Q.  While bytes are awaiting, the window (ticks, the
\* retransmission periods since it started) restarts with every step that
\* advances Q and with no other step.
C36_ExpiryWindow ==
    /\ [][\A t \in Tasks :
            (Awaiting(t) /\ Awaiting(t)') =>
               IF tasks'[t].sender_ack > tasks[t].sender_ack
               THEN tasks'[t].ticks = 0
               ELSE tasks'[t].ticks >= tasks[t].ticks]_vars
    /\ [](\A t \in Tasks : Awaiting(t) => tasks[t].ticks <= ExpiryTicks + 1)
    /\ \A t \in Tasks : \A q \in 0..MaxOut :
          (Awaiting(t) /\ tasks[t].sender_ack = q)
             ~> \/ tasks[t].closeSent
                \/ Running(t) /\ tasks[t].sender_ack > q


\* the connections whose channel took a message in this step
Placed == {c \in Clients : Len(to_client'[c]) > Len(to_client[c])}

\* connection c sent an IAmDispatcher that lists road r
RegisteredFor(c, r) ==
    \E k \in 1..Len(ticket_log) :
       /\ ticket_log[k].ty = "RegisterDispatcher"
       /\ ticket_log[k].drx = c
       /\ \E i \in 1..Len(ticket_log[k].roads) : ticket_log[k].roads[i] = r

\* the connections registered for road r, in the order the ticket system
\* took their registrations
RegistrationOrder(r) ==
    LET taken == SubSeq(ticket_log, 1, Len(ticket_log) - Len(ticket_queue))
        regs == SelectSeq(taken, LAMBDA m :
                   /\ m.ty = "RegisterDispatcher"
                   /\ \E i \in 1..Len(m.roads) : m.roads[i] = r)
    IN  [i \in 1..Len(regs) |-> regs[i].drx]

\* C38: each step of submit_ticket tries the next dispatcher of the
\* ticket's road in registration order: the ticket is placed on at most one
\* channel, that of a dispatcher registered for the road, all dispatchers
\* before it having a closed channel; a dispatcher with a closed channel is
\* skipped; and the ticket is appended to the road's pending queue exactly
\* when no dispatcher of the road is left to try.
C38_TicketRouting ==
    [][TsysSubmitSend =>
         LET ticket == tsys.ticket
             ds == dispatchers[ticket.road]
             i == tsys.idx
             queued == pending_tickets' # pending_tickets
         IN  /\ ds = RegistrationOrder(ticket.road)
             /\ \A j \in 1..(i - 1) : ~RxOpen(ds[j])
             /\ Cardinality(Placed) <= 1
             /\ \A c \in Placed :
                   /\ c = ds[i]
                   /\ RegisteredFor(c, ticket.road)
                   /\ to_client'[c] = Append(to_client[c], TicketToClient(ticket))
                   /\ tsys'.pc = "recv"
                   /\ ~queued
             /\ queued <=> (Placed = {} /\ i > Len(ds))
             /\ queued =>
                   /\ pending_tickets' =
                         [pending_tickets EXCEPT ![ticket.road] = Append(@, ticket)]
                   /\ tsys'.pc = "recv"
             /\ (Placed = {} /\ ~queued) =>
                   /\ ~RxOpen(ds[i])
                   /\ tsys'.pc = "submit"
                   /\ tsys'.ticket = ticket
                   /\ tsys'.idx = i + 1]_vars

\* the ids of the tickets of a sequence of tickets
IdsOf(ts) == {ts[i].id : i \in 1..Len(ts)}

\* the tickets queued for a road: in the road's pending queue, or taken out
\* of it by register_dispatcher and not yet sent (ticket.rs:107-108)
Queued(r) ==
    IdsOf(pending_tickets[r]) \cup
    IdsOf(SelectSeq(tsys.queue, LAMBDA x : x.road = r))

\* C39: a ticket leaves a road's queue only by being placed on the channel
\* of a dispatcher registered for that road; the tickets not handed over when
\* the dispatcher being drained to disconnects stay queued.  (Steps in which
\* the ticket system's task dies are left aside.)
C39_QueuedTicketKept ==
    [][TsysAlive' =>
         \A r \in Roads : \A id \in Queued(r) \ Queued(r)' :
            \E c \in Placed :
               /\ RegisteredFor(c, r)
               /\ to_client'[c][Len(to_client'[c])].ty = "Ticket"
               /\ to_client'[c][Len(to_client'[c])].id = id
               /\ to_client'[c][Len(to_client'[c])].road = r]_vars


\* connection a holds the lock of the files entry f and its next statement
\* needs the lock of the dirs entry d, which is held
WaitsForDir(a, f, d) ==
    /\ calls[a].pc = "insert"
    /\ guards.fw[f] = a
    /\ Head(calls[a].todo)[1] = d
    /\ guards.dr[d] # {}

\* connection b holds the lock of the dirs entry d and its next statement
\* needs the lock of the files entry f, which is held
WaitsForFile(b, d, f) ==
    /\ calls[b].pc = "list"
    /\ b \in guards.dr[d]
    /\ Head(calls[b].todo)[1] = "File"
    /\ calls[b].dir \o Head(calls[b].todo)[2] = f
    /\ guards.fw[f] # 0

\* C40: under any interleaving of PUT, GET and LIST of concurrent
\* connections, no connection holds the lock of a files entry while waiting
\* for a dirs entry that another connection holds while waiting for that
\* files entry; and every call into the store returns.
C40_NoDeadlock ==
    /\ [](\A a, b \in Conns : \A f \in FileNames, d \in DirNames :
            ~(WaitsForDir(a, f, d) /\ WaitsForFile(b, d, f)))
    /\ \A c \in Conns : (calls[c].pc # "idle") ~> (calls[c].pc = "idle")

====
